---- MODULE Spec2Model ----
(***************************************************************************)
(* Model of the beatmap generation core:                                   *)
(*   src/src/utils/beatmapGenerator.ts   (BeatmapGenerator)                *)
(*   src/src/utils/patternMemory.ts      (PatternMemory)                   *)
(*   src/src/utils/adaptivePatternMorphing.ts (applyRhythmicVariance)      *)
(*                                                                         *)
(* Units.  Times and durations are integers in milliseconds, intensities   *)
(* and energies are integers in thousandths (0..1000 for 0..1),            *)
(* frequencies are integers in Hz.  The inputs enumerated by the initial   *)
(* predicates are chosen so that the divisions of the code that position   *)
(* bars, steps and section boundaries are exact in these units; the        *)
(* products that scale a hold duration are truncated to a millisecond.     *)
(* The two non-finite numbers a JavaScript division can produce here are   *)
(* the values Infinity and NaN below, with the IEEE rules for comparison,  *)
(* addition and Math.min written out in FLess, FAdd and FMin.              *)
(***************************************************************************)
EXTENDS Integers, Sequences, FiniteSets, TLC

VARIABLES
    bpm,                   \* audioAnalysis.bpm
    duration,              \* audioAnalysis.duration (ms)
    rawBeats,              \* audioAnalysis.beats
    energy,                \* audioAnalysis.energy (thousandths)
    difficulty,            \* difficultySettings
    speedMultiplier,       \* BeatmapGenerator.speedMultiplier (thousandths)
    currentTemplate,       \* index into PATTERN_TEMPLATES, 0 for null
    templateRotationIndex, \* BeatmapGenerator.templateRotationIndex
    lastSectionType,       \* BeatmapGenerator.lastSectionType, "null" for null
    memConfig,             \* PatternMemory.config
    patternHistory,        \* PatternMemory.patternHistory
    beatCounter,           \* PatternMemory.beatCounter
    phase,                 \* position of the run: idle, segmenting, ...
    onsets,                \* result of detectMusicalOnsets
    segTime,               \* loop variable `time` of segmentIntoBars
    bars,                  \* bars built so far by segmentIntoBars
    structure,             \* locals of analyzeSongStructure and its sections
    barIndex,              \* index (0-based) of the next bar of bars.forEach
    beatmap,               \* the running beatmap of generateBeatmap
    result,                \* the list generateBeatmap returned
    trace                  \* observations of the run used by the properties

vars == <<bpm, duration, rawBeats, energy, difficulty, speedMultiplier,
          currentTemplate, templateRotationIndex, lastSectionType,
          memConfig, patternHistory, beatCounter, phase, onsets, segTime,
          bars, structure, barIndex, beatmap, result, trace>>

inputVars == <<bpm, duration, rawBeats, energy, difficulty>>
genVars == <<speedMultiplier, currentTemplate, templateRotationIndex, lastSectionType>>
memVars == <<memConfig, patternHistory, beatCounter>>

-----------------------------------------------------------------------------
(* Numbers *)

Infinity == 999999999
NaN == -999999999

IsFinite(x) == x # Infinity /\ x # NaN

\* a < b on numbers: false when either operand is NaN
FLess(a, b) ==
    IF a = NaN \/ b = NaN THEN FALSE
    ELSE IF a = Infinity THEN FALSE
    ELSE IF b = Infinity THEN TRUE
    ELSE a < b

\* a + b on numbers (no operand here is -Infinity)
FAdd(a, b) ==
    IF a = NaN \/ b = NaN THEN NaN
    ELSE IF a = Infinity \/ b = Infinity THEN Infinity
    ELSE a + b

\* Math.min(a, b)
FMin(a, b) ==
    IF a = NaN \/ b = NaN THEN NaN
    ELSE IF a = Infinity THEN b
    ELSE IF b = Infinity THEN a
    ELSE IF a < b THEN a ELSE b

\* a * b \div c on numbers, for finite non-negative c; 0/0 is NaN
FMulDiv(a, b, c) ==
    IF a = NaN \/ b = NaN THEN NaN
    ELSE IF c = 0 THEN (IF a * b = 0 THEN NaN ELSE Infinity)
    ELSE (a * b) \div c

Min2(a, b) == IF a < b THEN a ELSE b
Max2(a, b) == IF a > b THEN a ELSE b
Abs(x) == IF x < 0 THEN -x ELSE x

RECURSIVE SumSeq(_)
SumSeq(s) == IF s = <<>> THEN 0 ELSE Head(s) + SumSeq(Tail(s))

\* Array.prototype.slice(from, to) with 0-based, end-exclusive indices
Slice(s, from, to) ==
    LET lo == Max2(from, 0)
        hi == Min2(to, Len(s))
    IN  IF hi <= lo THEN <<>> ELSE SubSeq(s, lo + 1, hi)

-----------------------------------------------------------------------------
(* Pattern template catalog *)

PATTERN_TEMPLATES == <<
    [name |-> "IntroGentle", steps |-> <<1, 2>>, duration10 |-> 40, holdSteps |-> {}, complexity |-> 1,
     kw |-> {"intro"}],
    [name |-> "WarmUp", steps |-> <<0, 3, 1>>, duration10 |-> 30, holdSteps |-> {}, complexity |-> 1,
     kw |-> {"warmup"}],
    [name |-> "LeftRightLeft", steps |-> <<0, 3, 0, 3, 3, 0>>, duration10 |-> 30, holdSteps |-> {}, complexity |-> 2,
     kw |-> {"leftright"}],
    [name |-> "SteadyBeat", steps |-> <<1, 2, 1, 2>>, duration10 |-> 20, holdSteps |-> {}, complexity |-> 2,
     kw |-> {"steady"}],
    [name |-> "UpDownFlow", steps |-> <<1, 2, 1, 2, 1>>, duration10 |-> 25, holdSteps |-> {}, complexity |-> 2,
     kw |-> {"flow"}],
    [name |-> "CrossPattern", steps |-> <<0, 2, 3, 1>>, duration10 |-> 20, holdSteps |-> {}, complexity |-> 2,
     kw |-> {"cross"}],
    [name |-> "ChorusBlast", steps |-> <<0, 3, 1, 2, 0, 3, 1, 2>>, duration10 |-> 20, holdSteps |-> {}, complexity |-> 4,
     kw |-> {"chorus"}],
    [name |-> "PowerFlow", steps |-> <<0, 1, 3, 2, 3, 1, 0, 2>>, duration10 |-> 20, holdSteps |-> {}, complexity |-> 4,
     kw |-> {"power", "flow"}],
    [name |-> "EnergyWave", steps |-> <<0, 1, 2, 3, 3, 2, 1, 0>>, duration10 |-> 20, holdSteps |-> {}, complexity |-> 4,
     kw |-> {"energy"}],
    [name |-> "IntenseRush", steps |-> <<0, 2, 1, 3, 0, 2, 1, 3>>, duration10 |-> 15, holdSteps |-> {}, complexity |-> 5,
     kw |-> {"intense"}],
    [name |-> "BridgeFlow", steps |-> <<1, 0, 2, 3, 2, 0>>, duration10 |-> 30, holdSteps |-> {}, complexity |-> 3,
     kw |-> {"bridge", "flow"}],
    [name |-> "Transition", steps |-> <<0, 1, 3, 2, 1>>, duration10 |-> 25, holdSteps |-> {}, complexity |-> 3,
     kw |-> {"transition"}],
    [name |-> "Syncopated", steps |-> <<0, 1, 3, 2, 1>>, duration10 |-> 25, holdSteps |-> {}, complexity |-> 3,
     kw |-> {"syncopated"}],
    [name |-> "SustainedMelody", steps |-> <<0, 1, 2, 3>>, duration10 |-> 40, holdSteps |-> {1}, complexity |-> 2,
     kw |-> {}],
    [name |-> "MelodyHold", steps |-> <<0, 1, 2>>, duration10 |-> 30, holdSteps |-> {2}, complexity |-> 2,
     kw |-> {}],
    [name |-> "PowerHold", steps |-> <<0, 1, 2, 3>>, duration10 |-> 40, holdSteps |-> {3}, complexity |-> 3,
     kw |-> {"power"}],
    [name |-> "FlowingHold", steps |-> <<1, 3, 0, 2>>, duration10 |-> 30, holdSteps |-> {1, 3}, complexity |-> 3,
     kw |-> {"flow"}],
    [name |-> "LeftMelody", steps |-> <<0, 2, 3, 1>>, duration10 |-> 40, holdSteps |-> {0}, complexity |-> 2,
     kw |-> {}],
    [name |-> "RightMelody", steps |-> <<3, 1, 0, 2>>, duration10 |-> 40, holdSteps |-> {3}, complexity |-> 2,
     kw |-> {}],
    [name |-> "AlternatingHolds", steps |-> <<0, 3, 1, 2>>, duration10 |-> 30, holdSteps |-> {0, 2}, complexity |-> 2,
     kw |-> {}],
    [name |-> "CrossHold", steps |-> <<0, 2, 1, 3>>, duration10 |-> 30, holdSteps |-> {1, 3}, complexity |-> 3,
     kw |-> {"cross"}],
    [name |-> "ZigzagHold", steps |-> <<0, 3, 0, 3, 1, 2>>, duration10 |-> 30, holdSteps |-> {0, 3}, complexity |-> 3,
     kw |-> {}],
    [name |-> "LeftRightCombo", steps |-> <<0, 0, 3, 3, 1, 2>>, duration10 |-> 25, holdSteps |-> {1, 4}, complexity |-> 4,
     kw |-> {"leftright"}],
    [name |-> "UpDownFlow", steps |-> <<1, 2, 1, 2, 0, 3>>, duration10 |-> 30, holdSteps |-> {0, 3}, complexity |-> 3,
     kw |-> {"flow"}],
    [name |-> "DiagonalSweep", steps |-> <<0, 1, 2, 3, 2, 1>>, duration10 |-> 30, holdSteps |-> {2, 5}, complexity |-> 4,
     kw |-> {}],
    [name |-> "RepeatingLeft", steps |-> <<0, 0, 0, 1, 2, 0>>, duration10 |-> 20, holdSteps |-> {0, 2}, complexity |-> 3,
     kw |-> {}],
    [name |-> "RepeatingRight", steps |-> <<3, 3, 3, 2, 1, 3>>, duration10 |-> 20, holdSteps |-> {0, 2}, complexity |-> 3,
     kw |-> {}],
    [name |-> "MixedPattern", steps |-> <<0, 3, 1, 2, 0, 3>>, duration10 |-> 25, holdSteps |-> {1, 4}, complexity |-> 4,
     kw |-> {}],
    [name |-> "TripletFlow", steps |-> <<0, 2, 1, 0, 2, 1>>, duration10 |-> 20, holdSteps |-> {}, complexity |-> 3,
     kw |-> {"flow"}],
    [name |-> "TripletWave", steps |-> <<1, 3, 0, 2, 1, 3>>, duration10 |-> 20, holdSteps |-> {}, complexity |-> 3,
     kw |-> {}],
    [name |-> "OutroFade", steps |-> <<1, 0, 2>>, duration10 |-> 40, holdSteps |-> {}, complexity |-> 1,
     kw |-> {"outro", "fade"}],
    [name |-> "Finale", steps |-> <<0, 1, 2, 3>>, duration10 |-> 60, holdSteps |-> {3}, complexity |-> 2,
     kw |-> {"finale"}]
>>

Sections == {"intro", "verse", "chorus", "bridge", "outro"}

beatsPerBar == 4

-----------------------------------------------------------------------------
(* Onset classification *)

WithType(s, t) == [i \in 1..Len(s) |-> [s[i] EXCEPT !.type = t]]

detectMusicalOnsets(raw) ==
    LET drums   == SelectSeq(raw, LAMBDA b: b.frequency < 250)
        snare   == SelectSeq(raw, LAMBDA b: b.frequency >= 150 /\ b.frequency < 500)
        melody  == SelectSeq(raw, LAMBDA b: b.frequency >= 300 /\ b.frequency < 3000)
        accents == SelectSeq(raw, LAMBDA b: b.frequency >= 2000)
    IN  WithType(drums, "drum") \o WithType(snare, "drum")
            \o WithType(melody, "melody") \o WithType(accents, "accent")

-----------------------------------------------------------------------------
(* Bar segmentation *)

\* (60 / bpm) * beatsPerBar, in ms
BarDurationOf(b) ==
    IF b = NaN THEN NaN
    ELSE IF b = Infinity THEN 0
    ELSE IF b = 0 THEN Infinity
    ELSE (60000 * beatsPerBar) \div b

\* faulty variant: the end of the bar not clamped to the duration
BarEndTimeUnclamped(time, barDuration, totalDuration) == FAdd(time, barDuration)

\* Math.min(time + barDuration, totalDuration) of one loop iteration
BarEndTime(time, barDuration, totalDuration) ==
    FMin(FAdd(time, barDuration), totalDuration)

\* faulty variant: the mean intensity divided by the plain count, 0/0 for an empty bar
MakeBarPlainMean(ons, time, barDuration, totalDuration) ==
    LET barOnsets == SelectSeq(ons, LAMBDA o:
                        o.time >= time /\ FLess(o.time, FAdd(time, barDuration)))
        intensities == [i \in 1..Len(barOnsets) |-> barOnsets[i].intensity]
    IN  [startTime |-> time,
         endTime   |-> FMin(FAdd(time, barDuration), totalDuration),
         onsets    |-> barOnsets,
         energy    |-> FMulDiv(SumSeq(intensities), 1, Len(barOnsets))]

\* the bar pushed by one iteration of the loop of segmentIntoBars
MakeBar(ons, time, barDuration, totalDuration) ==
    LET barOnsets == SelectSeq(ons, LAMBDA o:
                        o.time >= time /\ FLess(o.time, FAdd(time, barDuration)))
        intensities == [i \in 1..Len(barOnsets) |-> barOnsets[i].intensity]
    IN  [startTime |-> time,
         endTime   |-> BarEndTime(time, barDuration, totalDuration),
         onsets    |-> barOnsets,
         energy    |-> SumSeq(intensities) \div Max2(1, Len(barOnsets))]

-----------------------------------------------------------------------------
(* Song structure analysis *)

energyThreshold == 150

EnergyWindowSize(en) == Max2(10, Len(en) \div 20)

\* energy.slice(i, i + w).reduce(sum) / w
WindowEnergy(en, i, w) == SumSeq(Slice(en, i, i + w)) \div w

\* (i / energy.length) * duration
TimePosition(i, en, dur) == (i * dur) \div Len(en)

\* timePosition / totalDuration < pct/100 ; the quotient is NaN for 0/0
RatioLess(tp, total, pct) ==
    IF total = 0 THEN FALSE
    ELSE IF total > 0 THEN tp * 100 < pct * total
    ELSE tp * 100 > pct * total

RatioGreater(tp, total, pct) ==
    IF total = 0 THEN FALSE
    ELSE IF total > 0 THEN tp * 100 > pct * total
    ELSE tp * 100 < pct * total

determineSectionType(en, timePosition, totalDuration, sectionIndex) ==
    IF RatioLess(timePosition, totalDuration, 15) THEN "intro"
    ELSE IF RatioGreater(timePosition, totalDuration, 85) THEN "outro"
    ELSE IF en > 750 THEN "chorus"
    ELSE IF en < 350 THEN "bridge"
    ELSE "verse"

\* locals of analyzeSongStructure before its loop
StructureStart(en) ==
    LET w == EnergyWindowSize(en)
    IN  [w |-> w, i |-> w, currentSectionStart |-> 0, currentSectionType |-> "intro",
         lastSectionEnergy |-> WindowEnergy(en, 0, w), sections |-> <<>>, done |-> FALSE]

StructureLoopCond(st, en) == st.i < Len(en) - st.w

\* faulty variant: a boundary that does not move the start of the new section
StructureIterateKeepStart(st, en, dur) ==
    LET currentEnergy == WindowEnergy(en, st.i, st.w)
        energyChange  == Abs(currentEnergy - st.lastSectionEnergy)
        timePosition  == TimePosition(st.i, en, dur)
        closed == Append(st.sections,
                         [start |-> st.currentSectionStart, end |-> timePosition,
                          type |-> st.currentSectionType, energy |-> st.lastSectionEnergy])
    IN  IF energyChange > energyThreshold
        THEN [st EXCEPT !.sections = closed,
                        !.currentSectionType =
                            determineSectionType(currentEnergy, timePosition, dur, Len(closed)),
                        !.lastSectionEnergy = currentEnergy,
                        !.i = st.i + st.w]
        ELSE [st EXCEPT !.i = st.i + st.w]

\* faulty variant: the change is measured against the window just before
StructureIteratePreviousWindow(st, en, dur) ==
    LET currentEnergy == WindowEnergy(en, st.i, st.w)
        energyChange  == Abs(currentEnergy - WindowEnergy(en, st.i - st.w, st.w))
        timePosition  == TimePosition(st.i, en, dur)
        closed == Append(st.sections,
                         [start |-> st.currentSectionStart, end |-> timePosition,
                          type |-> st.currentSectionType, energy |-> st.lastSectionEnergy])
    IN  IF energyChange > energyThreshold
        THEN [st EXCEPT !.sections = closed,
                        !.currentSectionType =
                            determineSectionType(currentEnergy, timePosition, dur, Len(closed)),
                        !.currentSectionStart = timePosition,
                        !.lastSectionEnergy = currentEnergy,
                        !.i = st.i + st.w]
        ELSE [st EXCEPT !.i = st.i + st.w]

\* one iteration of the loop of analyzeSongStructure
StructureIterate(st, en, dur) ==
    LET currentEnergy == WindowEnergy(en, st.i, st.w)
        energyChange  == Abs(currentEnergy - st.lastSectionEnergy)
        timePosition  == TimePosition(st.i, en, dur)
        closed == Append(st.sections,
                         [start |-> st.currentSectionStart, end |-> timePosition,
                          type |-> st.currentSectionType, energy |-> st.lastSectionEnergy])
    IN  IF energyChange > energyThreshold
        THEN [st EXCEPT !.sections = closed,
                        !.currentSectionType =
                            determineSectionType(currentEnergy, timePosition, dur, Len(closed)),
                        !.currentSectionStart = timePosition,
                        !.lastSectionEnergy = currentEnergy,
                        !.i = st.i + st.w]
        ELSE [st EXCEPT !.i = st.i + st.w]

\* faulty variant: the final section typed outro whatever its length
StructureFinishForcedOutro(st, dur) ==
    [st EXCEPT !.sections = Append(st.sections,
                    [start |-> st.currentSectionStart, end |-> dur,
                     type |-> "outro", energy |-> st.lastSectionEnergy]),
               !.done = TRUE]

\* the final section pushed after the loop
StructureFinish(st, dur) ==
    [st EXCEPT !.sections = Append(st.sections,
                    [start |-> st.currentSectionStart, end |-> dur,
                     type |-> IF dur - st.currentSectionStart < 20000
                              THEN "outro" ELSE st.currentSectionType,
                     energy |-> st.lastSectionEnergy]),
               !.done = TRUE]

getSectionForTime(time, secs) ==
    LET hits == {i \in 1..Len(secs) : time >= secs[i].start /\ time < secs[i].end}
    IN  IF hits = {} THEN "verse"
        ELSE secs[CHOOSE i \in hits : \A j \in hits : i <= j].type

getSectionEnergy(time, en, dur) ==
    IF Len(en) = 0 THEN 500
    ELSE LET energyIndex == (time * Len(en)) \div dur
             safeIndex == Max2(0, Min2(energyIndex, Len(en) - 1))
         IN  IF en[safeIndex + 1] = 0 THEN 500 ELSE en[safeIndex + 1]

-----------------------------------------------------------------------------
(* Sorting: Array.prototype.sort is stable *)

\* insertion into a list of <<key, item>> pairs sorted by key, after the equal keys
RECURSIVE InsertKeyed(_, _)
InsertKeyed(x, s) ==
    IF s = <<>> THEN <<x>>
    ELSE IF x[1] < Head(s)[1] THEN <<x>> \o s
    ELSE <<Head(s)>> \o InsertKeyed(x, Tail(s))

RECURSIVE SortKeyed(_)
SortKeyed(s) ==
    IF s = <<>> THEN <<>>
    ELSE InsertKeyed(s[Len(s)], SortKeyed(SubSeq(s, 1, Len(s) - 1)))

\* the items of a sorted list of <<key, item>> pairs
Unkeyed(sorted) == [i \in 1..Len(sorted) |-> sorted[i][2]]

BeatTime(b) == b.time

\* faulty variant: the comparator sorts nothing
SortByTimeNone(s) == s

\* beatmap.sort((a, b) => a.time - b.time)
SortByTime(s) == Unkeyed(SortKeyed([i \in 1..Len(s) |-> <<BeatTime(s[i]), s[i]>>]))

-----------------------------------------------------------------------------
(* Pattern memory *)

HoldFlag(b) == IF b.isHold THEN "H" ELSE "T"

\* `${lane}-${pattern}-${H|T}` of the first ngramSize beats joined by '|':
\* the key is the sequence of its (lane, pattern, flag) parts
createSequenceKey(beats, cfg) ==
    LET first == Slice(beats, 0, cfg.ngramSize)
    IN  [i \in 1..Len(first) |-> <<first[i].lane, first[i].pattern, HoldFlag(first[i])>>]

\* faulty variant: a lookup that finds nothing
FindPatternNone(hist, sequence) == 0

\* patternHistory.find(p => p.sequence === sequence): index of the first match, 0 if none
FindPattern(hist, sequence) ==
    LET hits == {i \in 1..Len(hist) : hist[i].sequence = sequence}
    IN  IF hits = {} THEN 0 ELSE CHOOSE i \in hits : \A j \in hits : i <= j

\* faulty variant: too frequent from the third use on
IsTooFrequentAtThree(p) == p.frequency >= 3

IsTooFrequent(p) == p.frequency > 3

IsTooClose(p, counter, cfg) == counter - p.lastUsed < cfg.minRepetitionDistance

wouldBeRepetitive(hist, counter, cfg, beats) ==
    IF Len(beats) < cfg.ngramSize THEN FALSE
    ELSE LET k == FindPattern(hist, createSequenceKey(beats, cfg))
         IN  IF k = 0 THEN FALSE
             ELSE IsTooClose(hist[k], counter, cfg) \/ IsTooFrequent(hist[k])

\* aScore - bScore of the comparator of pruneHistory, times 10
PruneScore(p, counter) == 10 * p.frequency + (counter - p.lastUsed)

\* slice(-maxHistorySize * 0.8): the count is truncated to an integer, and -0 keeps all
pruneHistory(hist, counter, cfg) ==
    IF Len(hist) > cfg.maxHistorySize
    THEN LET sorted == Unkeyed(SortKeyed([i \in 1..Len(hist) |->
                                <<PruneScore(hist[i], counter), hist[i]>>]))
             keep   == (cfg.maxHistorySize * 8) \div 10
         IN  IF keep = 0 THEN sorted
             ELSE Slice(sorted, Len(sorted) - keep, Len(sorted))
    ELSE hist

\* recordPattern: the new <<patternHistory, beatCounter>>
recordPattern(hist, counter, cfg, beats, section, en) ==
    IF Len(beats) < cfg.ngramSize THEN <<hist, counter>>
    ELSE LET sequence == createSequenceKey(beats, cfg)
             k == FindPattern(hist, sequence)
             updated ==
                 IF k # 0
                 THEN [hist EXCEPT ![k].frequency = @ + 1, ![k].lastUsed = counter]
                 ELSE Append(hist, [sequence |-> sequence, frequency |-> 1,
                                    lastUsed |-> counter,
                                    context |-> [section |-> section, energy |-> en]])
             counter2 == counter + Len(beats)
         IN  <<pruneHistory(updated, counter2, cfg), counter2>>

\* getDiversityScore, in thousandths: 0.7 * unique/total + 0.3 * (1 - (max - avg)/max),
\* where 1 - (max - avg)/max is sum / (total * max)
getDiversityScore(hist) ==
    IF Len(hist) < 5 THEN 1000
    ELSE LET totalPatterns == Len(hist)
             uniquePatterns == Cardinality({hist[i].sequence : i \in 1..Len(hist)})
             frequencies == [i \in 1..Len(hist) |-> hist[i].frequency]
             maxFreq == CHOOSE m \in {frequencies[i] : i \in 1..Len(hist)} :
                            \A i \in 1..Len(hist) : frequencies[i] <= m
         IN  (700 * uniquePatterns) \div totalPatterns
                 + (300 * SumSeq(frequencies)) \div (totalPatterns * maxFreq)

\* getCooldownPatterns: the keys used less than minRepetitionDistance beats ago
getCooldownPatterns(hist, counter, cfg) ==
    {hist[i].sequence : i \in {j \in 1..Len(hist) :
                                  counter - hist[j].lastUsed < cfg.minRepetitionDistance}}

\* faulty variant: a reset that clears the counter and keeps the records
resetKeepsHistory == <<patternHistory, 0>>

\* reset(): the new <<patternHistory, beatCounter>>
reset == << <<>>, 0 >>

-----------------------------------------------------------------------------
(* Template selection *)

Has(t, word) == word \in t.kw

\* the filter of selectNewTemplateForSection: does template t qualify for the section
SectionFilter(t, section) ==
    CASE section = "intro"  -> Has(t, "intro") \/ Has(t, "warmup") \/ t.complexity <= 2
      [] section = "outro"  -> Has(t, "outro") \/ Has(t, "finale") \/ Has(t, "fade")
                                  \/ t.complexity <= 2
      [] section = "chorus" -> Has(t, "chorus") \/ Has(t, "power") \/ Has(t, "energy")
                                  \/ Has(t, "intense") \/ t.complexity >= 3
      [] section = "bridge" -> Has(t, "bridge") \/ Has(t, "transition") \/ Has(t, "syncopated")
                                  \/ (t.complexity >= 2 /\ t.complexity <= 4)
      [] OTHER              -> Has(t, "steady") \/ Has(t, "flow") \/ Has(t, "cross")
                                  \/ Has(t, "leftright")
                                  \/ (t.complexity >= 2 /\ t.complexity <= 3)

TemplateIndices == [i \in 1..Len(PATTERN_TEMPLATES) |-> i]

\* availableTemplates, as indices into PATTERN_TEMPLATES
AvailableTemplates(section, en) ==
    LET sectionTemplates == SelectSeq(TemplateIndices,
                                LAMBDA i: SectionFilter(PATTERN_TEMPLATES[i], section))
        withHolds == SelectSeq(sectionTemplates,
                                LAMBDA i: PATTERN_TEMPLATES[i].holdSteps # {})
        energyFiltered == IF FLess(600, en)
                          THEN (IF Len(withHolds) > 0 THEN withHolds ELSE sectionTemplates)
                          ELSE sectionTemplates
    IN  IF Len(energyFiltered) > 0 THEN energyFiltered
        ELSE SelectSeq(TemplateIndices, LAMBDA i: PATTERN_TEMPLATES[i].complexity <= 3)

\* availableTemplates[templateRotationIndex % availableTemplates.length]
selectNewTemplateForSection(section, en, rotationIndex) ==
    LET available == AvailableTemplates(section, en)
    IN  IF Len(available) = 0 THEN 0
        ELSE available[(rotationIndex % Len(available)) + 1]

-----------------------------------------------------------------------------
(* Template based pattern of one bar *)

undefined == -999999998

onsetTolerance == 150
sustainTolerance == 300

\* findNearestOnset: index of the first onset at the least distance below tolerance, 0 for null
findNearestOnset(ons, targetTime, tolerance) ==
    LET near == {i \in 1..Len(ons) : Abs(ons[i].time - targetTime) < tolerance}
    IN  IF near = {} THEN 0
        ELSE CHOOSE i \in near :
                \A j \in near :
                    \/ Abs(ons[i].time - targetTime) < Abs(ons[j].time - targetTime)
                    \/ (Abs(ons[i].time - targetTime) = Abs(ons[j].time - targetTime) /\ i <= j)

findSustainedOnsets(ons, targetTime, tolerance) ==
    SelectSeq(ons, LAMBDA o: Abs(o.time - targetTime) <= tolerance
                                /\ o.type = "melody" /\ o.intensity > 600)

\* the reduce of getFrequencyForOnset / getIntensityForOnset: the first closest onset,
\* or the default onset when the bar has none
ClosestOnset(ons, targetTime) ==
    IF ons = <<>>
    THEN [time |-> targetTime, intensity |-> 500, frequency |-> 440, type |-> "drum"]
    ELSE ons[CHOOSE i \in 1..Len(ons) :
                \A j \in 1..Len(ons) :
                    \/ Abs(ons[i].time - targetTime) < Abs(ons[j].time - targetTime)
                    \/ (Abs(ons[i].time - targetTime) = Abs(ons[j].time - targetTime) /\ i <= j)]

getFrequencyForOnset(ons, targetTime) == ClosestOnset(ons, targetTime).frequency

getIntensityForOnset(ons, targetTime) == ClosestOnset(ons, targetTime).intensity

getBeatTypeForSection(section) ==
    IF section = "bridge" THEN "snare" ELSE "kick"

RepeatCount(t) == Max2(1, (beatsPerBar * 10) \div t.duration10)

\* bar.startTime + (repeat/repeatCount + stepIndex/stepsPerPattern/repeatCount) * barDuration
StepTime(bar, t, repeat, stepIndex) ==
    bar.startTime
        + ((repeat * Len(t.steps) + stepIndex) * (bar.endTime - bar.startTime))
              \div (Len(t.steps) * RepeatCount(t))

\* sustainedOnsets.reduce((max, onset) => Math.max(max, onset.intensity * 2), 0.5), in ms
RECURSIVE SustainedLength(_)
SustainedLength(sustained) ==
    IF sustained = <<>> THEN 500
    ELSE Max2(SustainedLength(SubSeq(sustained, 1, Len(sustained) - 1)),
              2 * sustained[Len(sustained)].intensity)

\* baseHoldDuration * energyMultiplier = (next - time) * 1.2 * (0.8 + energy * 0.6)
FallbackHold(nextStepTime, time, en) ==
    IF en = NaN THEN NaN
    ELSE ((nextStepTime - time) * 6 * (4000 + 3 * en)) \div 25000

\* the holdDuration of a hold step
HoldDurationOf(bar, time, nextStepTime) ==
    LET barDuration == bar.endTime - bar.startTime
        remaining   == barDuration - (time - bar.startTime)
        sustained   == findSustainedOnsets(bar.onsets, time, sustainTolerance)
    IN  IF Len(sustained) > 0
        THEN Min2(Min2(SustainedLength(sustained), remaining), 3000)
        ELSE FMin(FallbackHold(nextStepTime, time, bar.energy), remaining)

\* finalLane of a step
HoldLaneRotation(section, repeat) ==
    LET laneRotation == IF section = "chorus" THEN <<0, 2, 1, 3>> ELSE <<1, 3, 0, 2>>
    IN  laneRotation[(repeat % Len(laneRotation)) + 1]

\* the candidate beat of one step; emit is the test `time < bar.endTime`
StepBeat(bar, section, barIdx, t, repeat, stepIndex) ==
    LET n == Len(t.steps)
        gridTime == StepTime(bar, t, repeat, stepIndex)
        nearest == findNearestOnset(bar.onsets, gridTime, onsetTolerance)
        time == IF nearest # 0 THEN bar.onsets[nearest].time ELSE gridTime
        isHoldStep == stepIndex \in t.holdSteps
        nextStepTime == IF stepIndex + 1 < n
                        THEN StepTime(bar, t, repeat, stepIndex + 1)
                        ELSE bar.endTime
        intensity == IF nearest # 0 THEN bar.onsets[nearest].intensity
                     ELSE getIntensityForOnset(bar.onsets, time)
    IN  [emit |-> time < bar.endTime,
         beat |-> [time |-> time,
                   intensity |-> intensity,
                   frequency |-> getFrequencyForOnset(bar.onsets, time),
                   type |-> getBeatTypeForSection(section),
                   lane |-> IF isHoldStep /\ repeat > 0
                            THEN HoldLaneRotation(section, repeat)
                            ELSE t.steps[stepIndex + 1],
                   pattern |-> "template",
                   section |-> section,
                   isAccent |-> (stepIndex = 0 \/ intensity > 800),
                   isHold |-> isHoldStep,
                   holdDuration |-> IF isHoldStep
                                    THEN HoldDurationOf(bar, time, nextStepTime)
                                    ELSE undefined,
                   templateName |-> t.name,
                   barIndex |-> barIdx]]

\* generateTemplateBasedPattern with the template already selected; a bar whose
\* endTime is NaN yields no beat, every `time < bar.endTime` being false
generateTemplateBasedPattern(bar, section, barIdx, t) ==
    IF ~IsFinite(bar.endTime) THEN <<>>
    ELSE LET n == Len(t.steps)
             all == [k \in 1..(n * RepeatCount(t)) |->
                        StepBeat(bar, section, barIdx, t, (k - 1) \div n, (k - 1) % n)]
             emitted == SelectSeq(all, LAMBDA c: c.emit)
         IN  [i \in 1..Len(emitted) |-> emitted[i].beat]

-----------------------------------------------------------------------------
(* Morphing and anti-repetition *)

rhythmicVariance == 15

\* applyRhythmicVariance: beat.time + (Math.random() - 0.5) * (rhythmicVariance / 1000);
\* jitter[i] is the offset drawn for the i-th beat, in ms
applyRhythmicVariance(beats, jitter) ==
    IF rhythmicVariance = 0 THEN beats
    ELSE [i \in 1..Len(beats) |-> [beats[i] EXCEPT !.time = @ + jitter[i]]]

\* faulty variant: the lane shift without the wrap to four lanes
ShiftLaneNoWrap(lane) == lane + 1

\* faulty variant: a shift by a full turn of the four lanes
ShiftLaneFullTurn(lane) == (lane + 4) % 4

ShiftLane(lane) == (lane + 1) % 4

applyAntiRepetitionVariations(beats, section) ==
    [i \in 1..Len(beats) |-> [beats[i] EXCEPT !.lane = ShiftLane(@)]]

-----------------------------------------------------------------------------
(* Post-processing *)

minSpacing == 100

\* the k-th value of Math.random() of a pass, in thousandths; the tape wraps around
Draw(rnd, k) == rnd[((k - 1) % Len(rnd)) + 1]

\* Math.floor(Math.random() * n) for a draw r
RandomIndex(r, n) == (r * n) \div 1000

Indices(s) == [i \in 1..Len(s) |-> i]

\* faulty variant: a filter that keeps every beat
SpacingFilterNone(sorted) == sorted

\* the minimum-spacing filter of postProcessWithHolds over the sorted list
SpacingFilter(sorted) ==
    LET keepIdx == SelectSeq(Indices(sorted), LAMBDA i:
                      \/ i = 1
                      \/ sorted[i].isHold \/ sorted[i - 1].isHold
                      \/ sorted[i].time - sorted[i - 1].time >= minSpacing)
    IN  [k \in 1..Len(keepIdx) |-> sorted[keepIdx[k]]]

SeqContains(s, x) == \E i \in 1..Len(s) : s[i] = x

complexHoldPatterns == <<
    [lanes |-> <<0, 3, 0, 3>>, name |-> "LeftRightHolds"],
    [lanes |-> <<0, 1, 2, 3>>, name |-> "DiagonalSweep"],
    [lanes |-> <<0, 2, 1, 3>>, name |-> "CrossPattern"],
    [lanes |-> <<1, 2, 1, 2>>, name |-> "UpDownFlow"],
    [lanes |-> <<0, 3, 1, 2, 0, 3>>, name |-> "MixedComplex"] >>

\* createComplexHoldPattern over the beats at positions idxs of bm; st = [bm, recent]
RECURSIVE ComplexApply(_, _, _, _, _)
ComplexApply(st, idxs, pat, gap, k) ==
    IF k > Min2(Len(idxs), Len(pat.lanes)) THEN st
    ELSE LET lane == pat.lanes[k]
             bm2 == [st.bm EXCEPT ![idxs[k]] =
                        [@ EXCEPT !.lane = lane, !.isHold = TRUE,
                                  !.holdDuration = Min2((gap * 6) \div 10, 1500),
                                  !.templateName = pat.name]]
             recent2 == IF SeqContains(st.recent, lane) THEN st.recent
                        ELSE Append(st.recent, lane)
         IN  ComplexApply([bm |-> bm2, recent |-> recent2], idxs, pat, gap, k + 1)

createComplexHoldPattern(st, idxs, gap, r) ==
    LET availablePatterns == SelectSeq(complexHoldPatterns, LAMBDA p:
                                ~(\A i \in 1..Len(p.lanes) : SeqContains(st.recent, p.lanes[i])))
    IN  IF Len(availablePatterns) = 0 THEN st
        ELSE ComplexApply(st, idxs,
                 availablePatterns[RandomIndex(r, Len(availablePatterns)) + 1], gap, 1)

maxRecentLanes == 3

\* the simple sustained hold on the first beat of the sustained section
SimpleHold(st, idx, gap, r) ==
    IF st.bm[idx].isHold THEN st
    ELSE LET availableLanes == SelectSeq(<<0, 1, 2, 3>>, LAMBDA l: ~SeqContains(st.recent, l))
             lane == IF Len(availableLanes) > 0
                     THEN availableLanes[RandomIndex(r, Len(availableLanes)) + 1]
                     ELSE st.bm[idx].lane
             pushed == Append(st.recent, lane)
         IN  [bm |-> [st.bm EXCEPT ![idx] =
                        [@ EXCEPT !.lane = lane, !.isHold = TRUE,
                                  !.holdDuration = Min2((gap * 8) \div 10, 2000)]],
              recent |-> IF Len(pushed) > maxRecentLanes THEN Tail(pushed) ELSE pushed]

MelodyOnsets(raw) == SelectSeq(raw, LAMBDA b: b.frequency >= 300 /\ b.frequency < 3000)

\* faulty variant: the draw is compared with <= against holdNoteFrequency
SustainedStepInclusive(st, current, next, diff, rShould, rPick) ==
    LET gap == next.time - current.time
        sustainedBeats == SelectSeq(Indices(st.bm), LAMBDA j:
                              /\ st.bm[j].time >= current.time
                              /\ st.bm[j].time <= next.time
                              /\ 10 * Abs(st.bm[j].time - current.time) < 7 * gap)
        shouldAddHold == rShould <= diff.holdNoteFrequency
    IN  IF gap > 1000 /\ gap < 4000 /\ shouldAddHold /\ Len(sustainedBeats) > 0
        THEN IF diff.complexPatterns /\ Len(sustainedBeats) >= 3
             THEN createComplexHoldPattern(st, sustainedBeats, gap, rPick)
             ELSE SimpleHold(st, sustainedBeats[1], gap, rPick)
        ELSE st

\* the body of the loop of addSustainedHolds for melodyOnsets[i], melodyOnsets[i+1]
SustainedStep(st, current, next, diff, rShould, rPick) ==
    LET gap == next.time - current.time
        sustainedBeats == SelectSeq(Indices(st.bm), LAMBDA j:
                              /\ st.bm[j].time >= current.time
                              /\ st.bm[j].time <= next.time
                              /\ 10 * Abs(st.bm[j].time - current.time) < 7 * gap)
        shouldAddHold == rShould < diff.holdNoteFrequency
    IN  IF gap > 1000 /\ gap < 4000 /\ shouldAddHold /\ Len(sustainedBeats) > 0
        THEN IF diff.complexPatterns /\ Len(sustainedBeats) >= 3
             THEN createComplexHoldPattern(st, sustainedBeats, gap, rPick)
             ELSE SimpleHold(st, sustainedBeats[1], gap, rPick)
        ELSE st

RECURSIVE SustainedLoop(_, _, _, _, _)
SustainedLoop(st, mel, i, diff, rnd) ==
    IF i >= Len(mel) THEN st
    ELSE SustainedLoop(
            SustainedStep(st, mel[i], mel[i + 1], diff, Draw(rnd, 2 * i - 1), Draw(rnd, 2 * i)),
            mel, i + 1, diff, rnd)

repeatingPatterns == <<
    [lanes |-> <<0, 0, 0, 1>>, name |-> "RepeatingLeft"],
    [lanes |-> <<3, 3, 3, 2>>, name |-> "RepeatingRight"],
    [lanes |-> <<1, 1, 2, 2>>, name |-> "RepeatingUpDown"],
    [lanes |-> <<0, 3, 0, 3>>, name |-> "RepeatingLeftRight"],
    [lanes |-> <<1, 2, 1, 2, 0, 3>>, name |-> "RepeatingMixed"] >>

\* the grouping loop of addRepeatingHoldPatterns; acc = [groups, current], as positions
RECURSIVE GroupLoop(_, _, _)
GroupLoop(bm, i, acc) ==
    IF i > Len(bm) - 1 THEN acc
    ELSE LET timeDiff == bm[i + 1].time - bm[i].time
         IN  IF timeDiff > 400 /\ timeDiff < 800
             THEN GroupLoop(bm, i + 1,
                      [acc EXCEPT !.current =
                          (IF acc.current = <<>> THEN <<i>> ELSE acc.current) \o <<i + 1>>])
             ELSE GroupLoop(bm, i + 1,
                      [groups |-> IF Len(acc.current) >= 4
                                  THEN Append(acc.groups, acc.current) ELSE acc.groups,
                       current |-> <<>>])

RepeatingBeatGroups(bm) ==
    LET acc == GroupLoop(bm, 1, [groups |-> <<>>, current |-> <<>>])
    IN  IF Len(acc.current) >= 4 THEN Append(acc.groups, acc.current) ELSE acc.groups

\* holdDuration of the beat at position beatIndex (0-based) of a repeating group
RepeatingHoldDuration(bm, group, beatIndex) ==
    Min2(1200,
         ((bm[group[Min2(beatIndex + 1, Len(group) - 1) + 1]].time
              - bm[group[beatIndex + 1]].time) * 8) \div 10)

\* group.forEach of addRepeatingHoldPatterns for one selected group
RECURSIVE GroupApply(_, _, _, _, _)
GroupApply(bm, group, pat, diff, beatIndex) ==
    IF beatIndex >= Len(group) THEN bm
    ELSE LET patternIndex == beatIndex % Len(pat.lanes)
             pos == group[beatIndex + 1]
             laned == [bm[pos] EXCEPT !.lane = pat.lanes[patternIndex + 1]]
             held == IF patternIndex = 0 \/ (diff.complexPatterns /\ patternIndex % 2 = 0)
                     THEN [laned EXCEPT !.isHold = TRUE,
                                        !.holdDuration = RepeatingHoldDuration(bm, group, beatIndex),
                                        !.templateName = pat.name]
                     ELSE laned
         IN  GroupApply([bm EXCEPT ![pos] = held], group, pat, diff, beatIndex + 1)

RECURSIVE GroupsLoop(_, _, _, _, _)
GroupsLoop(bm, groups, g, diff, rnd) ==
    IF g > Len(groups) THEN bm
    ELSE LET shouldAddPattern == Draw(rnd, g) * 10 < diff.holdNoteFrequency * 8
             pat == repeatingPatterns[((g - 1) % Len(repeatingPatterns)) + 1]
         IN  GroupsLoop(IF shouldAddPattern THEN GroupApply(bm, groups[g], pat, diff, 0) ELSE bm,
                        groups, g + 1, diff, rnd)

addRepeatingHoldPatterns(bm, diff, rnd) ==
    GroupsLoop(bm, RepeatingBeatGroups(bm), 1, diff, rnd)

\* addSustainedHolds: rndA feeds the sustained-hold draws, rndB the repeating-group draws
addSustainedHolds(bm, raw, diff, rndA, rndB) ==
    LET st == SustainedLoop([bm |-> bm, recent |-> <<>>], MelodyOnsets(raw), 1, diff, rndA)
    IN  addRepeatingHoldPatterns(st.bm, diff, rndB)

\* curr.lane = (curr.lane + 1) % 4 of the same-lane run breaking
BreakLane(lane) == (lane + 1) % 4

\* the loop over i = 1 .. length - 2 (0-based) that breaks same-lane runs in place
RECURSIVE BreakRuns(_, _)
BreakRuns(bm, i) ==
    IF i > Len(bm) - 1 THEN bm
    ELSE BreakRuns(IF bm[i - 1].lane = bm[i].lane /\ bm[i].lane = bm[i + 1].lane
                   THEN [bm EXCEPT ![i].lane = BreakLane(@)]
                   ELSE bm,
                   i + 1)

\* the fields of the beats that the hold passes assign
HoldView(bm) == [i \in 1..Len(bm) |-> <<bm[i].lane, bm[i].isHold, bm[i].holdDuration>>]

\* the sustained melody sections of addSustainedHolds that hold at least one beat
SustainedSections(bm, raw) ==
    LET mel == MelodyOnsets(raw)
    IN  {i \in 1..(Len(mel) - 1) :
            LET gap == mel[i + 1].time - mel[i].time
            IN  /\ gap > 1000 /\ gap < 4000
                /\ \E j \in 1..Len(bm) :
                       /\ bm[j].time >= mel[i].time
                       /\ bm[j].time <= mel[i + 1].time
                       /\ 10 * Abs(bm[j].time - mel[i].time) < 7 * gap}

\* what the hold passes of one post-processing met and did: whether addSustainedHolds
\* changed a lane, isHold or holdDuration, how many sustained sections and repeating
\* groups it drew for, and the holds the templates had generated
HoldPass(bm, raw, diff, rndA, rndB) ==
    LET filtered == SpacingFilter(SortByTime(bm))
    IN  [changed |-> HoldView(addSustainedHolds(filtered, raw, diff, rndA, rndB))
                        # HoldView(filtered),
         sustained |-> Cardinality(SustainedSections(filtered, raw)),
         groups |-> Len(RepeatingBeatGroups(filtered)),
         template |-> {<<bm[i].barIndex, bm[i].time>> : i \in {j \in 1..Len(bm) : bm[j].isHold}}]

NoHoldPass == [changed |-> FALSE, sustained |-> 0, groups |-> 0, template |-> {}]

postProcessWithHolds(bm, raw, diff, rndA, rndB) ==
    LET filtered == SpacingFilter(SortByTime(bm))
        withHolds == addSustainedHolds(filtered, raw, diff, rndA, rndB)
    IN  BreakRuns(withHolds, 2)

-----------------------------------------------------------------------------
(* Inputs *)

\* DIFFICULTY_CONFIGS (thousandths for speedMultiplier and holdNoteFrequency)
DifficultyEasy ==
    [level |-> "easy", speedMultiplier |-> 800, noteCapacity |-> 4,
     timingWindow |-> 150, holdNoteFrequency |-> 300, complexPatterns |-> FALSE]
DifficultyHard ==
    [level |-> "hard", speedMultiplier |-> 1300, noteCapacity |-> 8,
     timingWindow |-> 75, holdNoteFrequency |-> 700, complexPatterns |-> TRUE]

Difficulties == {DifficultyEasy, DifficultyHard}

\* DifficultySettings with holdNoteFrequency 0, without and with complexPatterns
DifficultyNoHolds == [DifficultyEasy EXCEPT !.holdNoteFrequency = 0]
DifficultyNoHoldsComplex == [DifficultyHard EXCEPT !.holdNoteFrequency = 0]

Onset(t, i, f) == [time |-> t, intensity |-> i, frequency |-> f, type |-> "kick"]

\* no onsets; strong onsets in the first bar with a sustained melody; weak onsets
OnsetsNone == <<>>
OnsetsStrong == <<Onset(100, 900, 400), Onset(1300, 800, 1000), Onset(700, 700, 2500)>>
OnsetsWeak == <<Onset(0, 300, 100), Onset(620, 400, 2500)>>

OnsetInputs == {OnsetsNone, OnsetsStrong, OnsetsWeak}

Repeat(x, n) == [i \in 1..n |-> x]

EnergyEmpty == <<>>
EnergyFlat == Repeat(500, 40)
EnergyPeak == Repeat(200, 10) \o Repeat(900, 10) \o Repeat(200, 20)

EnergyInputs == {EnergyEmpty, EnergyFlat, EnergyPeak}

BpmInputs == {100, 200, 0, -100, Infinity, NaN}

DurationInputs == {0, 1440, 2400, 3600}

\* bounds of the exploration
MaxBars == 8
MaxRuns == 3

\* values of Math.random() (thousandths of [0, 1)) drawn by the post-processing passes
RandomValues == {0, 999}
SustainDraws == 2
GroupDraws == 1

\* offsets (Math.random() - 0.5) * rhythmicVariance, in ms, drawn for the beats of a bar:
\* one for the beats at odd positions and one for those at even positions
JitterValues == {-(rhythmicVariance \div 2), rhythmicVariance \div 2}
JitterPatterns == {<<a, b>> : a \in JitterValues, b \in JitterValues}
JitterOf(p, n) == [i \in 1..n |-> IF i % 2 = 1 THEN p[1] ELSE p[2]]

-----------------------------------------------------------------------------
(* Construction *)

\* faulty variant: the base multiplier clamped, without the adjustments
calculateSpeedMultiplierBase(b, en, diff) ==
    Max2(800, Min2(1400, diff.speedMultiplier))

\* calculateSpeedMultiplier; the mean of an empty energy array is NaN and compares false
calculateSpeedMultiplier(b, en, diff) ==
    LET total == SumSeq(en)
        n == Len(en)
        bpmAdjust == IF FLess(140, b) THEN 150
                     ELSE IF FLess(120, b) THEN 100
                     ELSE IF FLess(b, 80) THEN 50
                     ELSE 0
        energyAdjust == IF n > 0 /\ total > 800 * n THEN 100
                        ELSE IF n > 0 /\ total > 600 * n THEN 50
                        ELSE 0
    IN  Max2(800, Min2(1400, diff.speedMultiplier + bpmAdjust + energyAdjust))

\* the config the generator passes to its PatternMemory, over the defaults
GeneratorMemConfig ==
    [maxHistorySize |-> 200, minRepetitionDistance |-> 16, ngramSize |-> 4,
     diversityThreshold |-> 750]

\* no analytics computed yet
NoAnalysis == [done |-> FALSE, analytics |-> <<>>, qualityScore |-> 0]

NoStructure ==
    [w |-> 0, i |-> 0, currentSectionStart |-> 0, currentSectionType |-> "intro",
     lastSectionEnergy |-> 0, sections |-> <<>>, done |-> FALSE]

\* observations: runs started, whether a bar of the run was morphed, whether one was
\* varied against repetition, whether the bars arrived out of time order at the
\* post-processing, whether the run threw, and the last query put to the memory
NoTrace == [runs |-> 0, morphed |-> FALSE, varied |-> FALSE, disordered |-> FALSE,
            threw |-> FALSE, spin |-> FALSE, asked |-> FALSE, query |-> <<>>,
            answer |-> FALSE, op |-> "none", recorded |-> <<>>,
            selected |-> <<>>, replay |-> FALSE, draws |-> <<>>, prevDraws |-> <<>>,
            prevResult |-> <<>>, holdPass |-> NoHoldPass, analysis |-> NoAnalysis,
            stage7 |-> [level |-> "none", addedNotes |-> 0, added |-> <<>>],
            bar |-> [candidate |-> <<>>, flagged |-> FALSE],
            score |-> 1000, cooldown |-> {}]

\* state of the run-local data before generateBeatmap is called
IdleRun ==
    /\ phase = "idle"
    /\ onsets = <<>>
    /\ segTime = 0
    /\ bars = <<>>
    /\ structure = NoStructure
    /\ barIndex = 0
    /\ beatmap = <<>>
    /\ result = <<>>
    /\ trace = NoTrace

\* new BeatmapGenerator(audioAnalysis, difficultySettings)
Constructed ==
    /\ speedMultiplier = calculateSpeedMultiplier(bpm, energy, difficulty)
    /\ currentTemplate = 0
    /\ templateRotationIndex = 0
    /\ lastSectionType = "null"
    /\ memConfig = GeneratorMemConfig
    /\ patternHistory = <<>>
    /\ beatCounter = 0

Init ==
    /\ bpm \in BpmInputs
    /\ duration \in DurationInputs
    /\ rawBeats \in OnsetInputs
    /\ energy \in EnergyInputs
    /\ difficulty \in Difficulties
    /\ Constructed
    /\ IdleRun

-----------------------------------------------------------------------------
(* generateBeatmap *)

\* entry of generateBeatmap: patternMemory.reset(), detectMusicalOnsets(), and the
\* initialisation of the loop of segmentIntoBars
StartGeneration ==
    /\ phase \in {"idle", "complete"}
    /\ trace.runs < MaxRuns
    /\ phase' = "segmenting"
    /\ patternHistory' = reset[1]
    /\ beatCounter' = reset[2]
    /\ onsets' = detectMusicalOnsets(rawBeats)
    /\ segTime' = 0
    /\ bars' = <<>>
    /\ structure' = NoStructure
    /\ barIndex' = 0
    /\ beatmap' = <<>>
    /\ result' = <<>>
    \* where runs are compared (trace.replay), the draws and the beatmap of the
    \* run before are kept
    /\ trace' = [NoTrace EXCEPT !.runs = trace.runs + 1,
                                !.replay = trace.replay,
                                !.prevDraws = trace.draws,
                                !.prevResult = IF trace.replay THEN result ELSE <<>>]
    /\ UNCHANGED <<inputVars, genVars, memConfig>>

\* one iteration of `for (let time = 0; time < totalDuration; time += barDuration)`
SegmentBar ==
    /\ phase = "segmenting"
    /\ FLess(segTime, duration)
    /\ Len(bars) < MaxBars
    /\ bars' = Append(bars, MakeBar(onsets, segTime, BarDurationOf(bpm), duration))
    /\ segTime' = FAdd(segTime, BarDurationOf(bpm))
    /\ UNCHANGED <<inputVars, genVars, memVars, phase, onsets, structure, barIndex,
                   beatmap, result, trace>>

\* an iteration of the loop of segmentIntoBars past the MaxBars bars the model
\* records: with barDuration <= 0 the variable time never reaches totalDuration,
\* the loop goes on for ever, and the model keeps the parity of its iterations
SegmentSpin ==
    /\ phase = "segmenting"
    /\ FLess(segTime, duration)
    /\ Len(bars) >= MaxBars
    /\ IsFinite(BarDurationOf(bpm)) /\ BarDurationOf(bpm) <= 0
    /\ trace' = [trace EXCEPT !.spin = ~@]
    /\ UNCHANGED <<inputVars, genVars, memVars, phase, onsets, segTime, bars, structure,
                   barIndex, beatmap, result>>

\* segmentIntoBars returns; analyzeSongStructure starts
BeginStructure ==
    /\ phase = "segmenting"
    /\ ~FLess(segTime, duration)
    /\ phase' = "analyzing"
    /\ structure' = StructureStart(energy)
    /\ UNCHANGED <<inputVars, genVars, memVars, onsets, segTime, bars, barIndex,
                   beatmap, result, trace>>

\* one iteration of the loop of analyzeSongStructure
StructureStep ==
    /\ phase = "analyzing"
    /\ ~structure.done
    /\ StructureLoopCond(structure, energy)
    /\ structure' = StructureIterate(structure, energy, duration)
    /\ UNCHANGED <<inputVars, genVars, memVars, phase, onsets, segTime, bars, barIndex,
                   beatmap, result, trace>>

\* analyzeSongStructure pushes the final section and returns
StructureEnd ==
    /\ phase = "analyzing"
    /\ ~structure.done
    /\ ~StructureLoopCond(structure, energy)
    /\ structure' = StructureFinish(structure, duration)
    /\ UNCHANGED <<inputVars, genVars, memVars, phase, onsets, segTime, bars, barIndex,
                   beatmap, result, trace>>

\* the body of bars.forEach for bars[barIndex]; morph is the outcome of
\* `Math.random() < noveltyRatio` and jit the offsets drawn by the morpher
ProcessBar(morph, jit) ==
    /\ phase = "analyzing"
    /\ structure.done
    /\ barIndex < Len(bars)
    /\ \E bar \in {bars[barIndex + 1]} :
       \E section \in {getSectionForTime(bar.startTime, structure.sections)} :
       \E sectionEnergy \in {getSectionEnergy(bar.startTime, energy, duration)} :
       \E switch \in {section # lastSectionType} :
       \E template1 \in {IF switch
                         THEN selectNewTemplateForSection(section, bar.energy, templateRotationIndex)
                         ELSE currentTemplate} :
       \E rotation1 \in {IF switch THEN templateRotationIndex + 1 ELSE templateRotationIndex} :
       \E template2 \in {IF template1 = 0
                         THEN selectNewTemplateForSection(section, bar.energy, rotation1)
                         ELSE template1} :
       \E rotation2 \in {IF template1 = 0 THEN rotation1 + 1 ELSE rotation1} :
       \E generated \in {IF template2 = 0 THEN <<>>
                         ELSE generateTemplateBasedPattern(bar, section, barIndex,
                                                           PATTERN_TEMPLATES[template2])} :
       \E morphed \in {IF morph
                       THEN applyRhythmicVariance(generated, JitterOf(jit, Len(generated)))
                       ELSE generated} :
       \E repetitive \in {wouldBeRepetitive(patternHistory, beatCounter, memConfig, morphed)} :
       \E barBeats \in {IF repetitive
                        THEN applyAntiRepetitionVariations(morphed, section)
                        ELSE morphed} :
       \E recorded \in {recordPattern(patternHistory, beatCounter, memConfig,
                                      barBeats, section, sectionEnergy)} :
       \E throws \in {(switch \/ currentTemplate = 0)
                        /\ Len(AvailableTemplates(section, bar.energy)) = 0} :
           IF throws
           THEN /\ phase' = "threw"
                /\ trace' = [trace EXCEPT !.threw = TRUE]
                /\ UNCHANGED <<genVars, patternHistory, beatCounter, beatmap, barIndex>>
           ELSE /\ currentTemplate' = template2
                /\ templateRotationIndex' = rotation2
                /\ lastSectionType' = section
                /\ patternHistory' = recorded[1]
                /\ beatCounter' = recorded[2]
                /\ beatmap' = beatmap \o barBeats
                /\ trace' = [trace EXCEPT
                        !.morphed = @ \/ (morph /\ generated # <<>>),
                        !.varied = @ \/ repetitive,
                        \* the beats handed to wouldBeRepetitive and its answer
                        !.bar = [candidate |-> morphed, flagged |-> repetitive],
                        \* the calls of selectNewTemplateForSection of this run:
                        \* the template chosen and the length of the candidate list
                        !.draws = IF trace.replay THEN Append(@, <<"bar", <<morph, jit>>>>) ELSE @,
                        !.selected = IF switch
                                     THEN Append(@, <<template1,
                                            Len(AvailableTemplates(section, bar.energy))>>)
                                     ELSE @]
                /\ barIndex' = barIndex + 1
                /\ phase' = phase
    /\ UNCHANGED <<inputVars, speedMultiplier, memConfig, onsets, segTime, bars,
                   structure, result>>

\* steps 4 to 6 of generateBeatmap and its return: postProcessWithEnhancedHolds,
\* enhanceSectionTransitions (identity), and the final sort by time
FinishGeneration(rndA, rndB) ==
    /\ phase = "analyzing"
    /\ structure.done
    /\ barIndex = Len(bars)
    /\ \E processed \in {postProcessWithHolds(beatmap, rawBeats, difficulty, rndA, rndB)} :
           /\ beatmap' = processed
           /\ result' = SortByTime(processed)
    /\ phase' = "complete"
    /\ trace' = [trace EXCEPT !.disordered = (SortByTime(beatmap) # beatmap),
                              !.holdPass = HoldPass(beatmap, rawBeats, difficulty, rndA, rndB),
                              !.draws = IF trace.replay THEN Append(@, <<"finish", <<rndA, rndB>>>>)
                                        ELSE @]
    /\ UNCHANGED <<inputVars, genVars, memVars, onsets, segTime, bars, structure,
                   barIndex>>

NoJitter == <<0, 0>>

Next ==
    \/ StartGeneration
    \/ SegmentBar
    \/ SegmentSpin
    \/ BeginStructure
    \/ StructureStep
    \/ StructureEnd
    \/ ProcessBar(FALSE, NoJitter)
    \/ \E jit \in JitterPatterns : ProcessBar(TRUE, jit)
    \/ \E rndA \in [1..SustainDraws -> RandomValues], rndB \in [1..GroupDraws -> RandomValues] :
          FinishGeneration(rndA, rndB)

Spec == Init /\ [][Next]_vars

-----------------------------------------------------------------------------
(* generateBeatmap with a holdNoteFrequency of 0 *)

NoHoldsBpmInputs == {100, 200}

InitNoHolds ==
    /\ bpm \in NoHoldsBpmInputs
    /\ duration \in DurationInputs
    /\ rawBeats \in OnsetInputs
    /\ energy \in {EnergyFlat, EnergyPeak}
    /\ difficulty \in {DifficultyNoHolds, DifficultyNoHoldsComplex}
    /\ Constructed
    /\ IdleRun

NextNoHolds ==
    \/ StartGeneration
    \/ SegmentBar
    \/ BeginStructure
    \/ StructureStep
    \/ StructureEnd
    \/ ProcessBar(FALSE, NoJitter)
    \/ \E jit \in JitterPatterns : ProcessBar(TRUE, jit)
    \/ \E rndA \in [1..SustainDraws -> RandomValues], rndB \in [1..GroupDraws -> RandomValues] :
          FinishGeneration(rndA, rndB)

SpecNoHolds == InitNoHolds /\ [][NextNoHolds]_vars

-----------------------------------------------------------------------------
(* generateBeatmap over every kind of tempo and duration.  The run is one
   synchronous call: once started it keeps taking steps, which is the weak
   fairness of Next. *)

TotalDurationInputs == {-1000, 0, 1440, 2400}

InitTotal ==
    /\ bpm \in BpmInputs
    /\ duration \in TotalDurationInputs
    /\ rawBeats \in {OnsetsNone, OnsetsWeak}
    /\ energy = EnergyPeak
    /\ difficulty = DifficultyEasy
    /\ Constructed
    /\ IdleRun

\* the steps of the run that only move loop variables
LoopSteps ==
    StartGeneration \/ SegmentBar \/ SegmentSpin \/ BeginStructure \/ StructureStep
        \/ StructureEnd

\* ProcessBar and FinishGeneration are enabled exactly when their guards hold, and
\* their steps are the ones that advance barIndex, resp. set phase to complete:
\* their fairness is stated on the guard and on that effect
BarAdvance ==
    /\ phase = "analyzing" /\ structure.done /\ barIndex < Len(bars)
    /\ barIndex' = barIndex + 1

RunReturn ==
    /\ phase = "analyzing" /\ structure.done /\ barIndex = Len(bars)
    /\ phase' = "complete"

SpecTotal ==
    /\ InitTotal /\ [][Next]_vars
    /\ WF_vars(LoopSteps) /\ WF_barIndex(BarAdvance) /\ WF_phase(RunReturn)

-----------------------------------------------------------------------------
(* segmentIntoBars on its own inputs *)

SegBpmInputs == {60, 120, 240}
SegDurationInputs == {500, 1000, 2000, 3500, 8000}

InitSeg ==
    /\ bpm \in SegBpmInputs
    /\ duration \in SegDurationInputs
    /\ rawBeats \in OnsetInputs
    /\ energy = EnergyFlat
    /\ difficulty = DifficultyEasy
    /\ Constructed
    /\ IdleRun

NextSeg ==
    \/ StartGeneration
    \/ SegmentBar
    \/ BeginStructure

SpecSeg == InitSeg /\ [][NextSeg]_vars

-----------------------------------------------------------------------------
(* analyzeSongStructure on its own inputs *)

EnergyShort == Repeat(500, 5)
EnergySteps == Repeat(200, 10) \o Repeat(500, 10) \o Repeat(900, 20) \o Repeat(700, 10)
                   \o Repeat(300, 10) \o Repeat(500, 20)
EnergyDrift == Repeat(500, 10) \o Repeat(600, 10) \o Repeat(700, 10) \o Repeat(800, 10)
EnergyLate == Repeat(500, 60) \o Repeat(900, 10) \o Repeat(100, 10)
EnergyRamp == [i \in 1..80 |-> 10 * i]
EnergyWobble == Repeat(500, 10) \o Repeat(640, 10) \o Repeat(400, 10) \o Repeat(600, 20)

StructEnergyInputs ==
    {EnergyEmpty, EnergyShort, EnergyFlat, EnergyPeak, EnergySteps, EnergyDrift,
     EnergyLate, EnergyRamp, EnergyWobble}

StructDurationInputs == {4800, 24000, 40000, 200000}

InitStruct ==
    /\ bpm = 120
    /\ duration \in StructDurationInputs
    /\ rawBeats = OnsetsNone
    /\ energy \in StructEnergyInputs
    /\ difficulty = DifficultyEasy
    /\ Constructed
    /\ IdleRun

\* a call of analyzeSongStructure
AnalyzeStructure ==
    /\ phase = "idle"
    /\ phase' = "analyzing"
    /\ structure' = StructureStart(energy)
    /\ UNCHANGED <<inputVars, genVars, memVars, onsets, segTime, bars, barIndex,
                   beatmap, result, trace>>

NextStruct ==
    \/ AnalyzeStructure
    \/ StructureStep
    \/ StructureEnd

SpecStruct == InitStruct /\ [][NextStruct]_vars

-----------------------------------------------------------------------------
(* PatternMemory on its own: any sequence of its operations *)

MemBeat(l, p, h) == [lane |-> l, pattern |-> p, isHold |-> h]

Taps(lanes) == [i \in 1..Len(lanes) |-> MemBeat(lanes[i], "template", FALSE)]

BeatsA == Taps(<<0, 1, 2, 3>>)
BeatsALong == Taps(<<0, 1, 2, 3, 0>>)
BeatsB == Taps(<<1, 2, 3, 0>>)
BeatsHold == [Taps(<<0, 1, 2, 3>>) EXCEPT ![2].isHold = TRUE]
BeatsShort == Taps(<<0, 1, 2>>)
BeatsBar == Taps(<<0, 1, 2, 3, 0, 1, 2, 3, 0, 1, 2, 3, 0, 1, 2, 3>>)

MemBeatInputs == {BeatsA, BeatsALong, BeatsB, BeatsHold, BeatsShort, BeatsBar}

\* the defaults of the PatternMemory constructor, and a small configuration
DefaultMemConfig ==
    [maxHistorySize |-> 200, minRepetitionDistance |-> 16, ngramSize |-> 4,
     diversityThreshold |-> 700]
SmallMemConfig ==
    [maxHistorySize |-> 2, minRepetitionDistance |-> 6, ngramSize |-> 3,
     diversityThreshold |-> 700]

TinyMemConfig ==
    [maxHistorySize |-> 1, minRepetitionDistance |-> 6, ngramSize |-> 3,
     diversityThreshold |-> 700]

MemConfigInputs == {DefaultMemConfig, SmallMemConfig, TinyMemConfig}

MaxBeatCounter == 24

InitMem ==
    /\ bpm = 120
    /\ duration = 0
    /\ rawBeats = OnsetsNone
    /\ energy = EnergyEmpty
    /\ difficulty = DifficultyEasy
    /\ speedMultiplier = calculateSpeedMultiplier(bpm, energy, difficulty)
    /\ currentTemplate = 0
    /\ templateRotationIndex = 0
    /\ lastSectionType = "null"
    /\ memConfig \in MemConfigInputs
    /\ patternHistory = <<>>
    /\ beatCounter = 0
    /\ IdleRun

MemFrame == UNCHANGED <<inputVars, genVars, memConfig, phase, onsets, segTime, bars,
                        structure, barIndex, beatmap, result>>

\* patternMemory.recordPattern(beats, section, energy)
MemRecord(beats, section, en) ==
    /\ beatCounter + Len(beats) <= MaxBeatCounter
    /\ LET recorded == recordPattern(patternHistory, beatCounter, memConfig, beats, section, en)
       IN  /\ patternHistory' = recorded[1]
           /\ beatCounter' = recorded[2]
    /\ trace' = [trace EXCEPT !.asked = FALSE, !.query = <<>>, !.answer = FALSE,
                              !.op = "record", !.recorded = beats,
                              !.score = 1000, !.cooldown = {}]
    /\ MemFrame

\* patternMemory.wouldBeRepetitive(beats)
MemQuery(beats) ==
    /\ trace' = [trace EXCEPT !.asked = TRUE, !.query = beats,
                              !.answer = wouldBeRepetitive(patternHistory, beatCounter,
                                                           memConfig, beats),
                              !.op = "query", !.score = 1000, !.cooldown = {}]
    /\ UNCHANGED <<patternHistory, beatCounter>>
    /\ MemFrame

\* patternMemory.reset()
MemReset ==
    /\ patternHistory' = reset[1]
    /\ beatCounter' = reset[2]
    /\ trace' = [trace EXCEPT !.asked = FALSE, !.query = <<>>, !.answer = FALSE,
                              !.op = "reset", !.recorded = <<>>,
                              !.score = 1000, !.cooldown = {}]
    /\ MemFrame

NextMem ==
    \/ \E beats \in MemBeatInputs : MemRecord(beats, "verse", 500)
    \/ \E beats \in MemBeatInputs : MemQuery(beats)
    \/ MemReset

SpecMem == InitMem /\ [][NextMem]_vars

-----------------------------------------------------------------------------
(* Template selection on its own: the section changes of one run, for any
   sequence of sections and bar energies *)

SelectEnergyInputs == {300, 700}

MaxSelections == 40

InitSelect ==
    /\ bpm = 120
    /\ duration = 0
    /\ rawBeats = OnsetsNone
    /\ energy = EnergyEmpty
    /\ difficulty = DifficultyEasy
    /\ Constructed
    /\ IdleRun

\* `if (section !== this.lastSectionType)` of generateBeatmap for a bar of the
\* given section and energy; trace.selected keeps the last two calls
SelectTemplate(section, en) ==
    /\ section # lastSectionType
    /\ templateRotationIndex < MaxSelections
    /\ Len(AvailableTemplates(section, en)) > 0
    /\ currentTemplate' = selectNewTemplateForSection(section, en, templateRotationIndex)
    /\ templateRotationIndex' = templateRotationIndex + 1
    /\ lastSectionType' = section
    /\ trace' = [trace EXCEPT !.selected =
                    Slice(Append(@, <<currentTemplate', Len(AvailableTemplates(section, en))>>),
                          Len(@) - 1, Len(@) + 1)]
    /\ UNCHANGED <<inputVars, speedMultiplier, memVars, phase, onsets, segTime, bars,
                   structure, barIndex, beatmap, result>>

NextSelect == \E section \in Sections, en \in SelectEnergyInputs : SelectTemplate(section, en)

SpecSelect == InitSelect /\ [][NextSelect]_vars

-----------------------------------------------------------------------------
(* Repeated runs of one generator: from the second run on, every run draws the
   random values the run before drew *)

RunsBpmInputs == {100, 200}
RunsDurationInputs == {2400, 3600}

InitRuns ==
    /\ bpm \in RunsBpmInputs
    /\ duration \in RunsDurationInputs
    /\ rawBeats \in {OnsetsNone, OnsetsStrong}
    /\ energy \in {EnergyFlat, EnergyPeak}
    /\ difficulty = DifficultyEasy
    /\ Constructed
    /\ phase = "idle"
    /\ onsets = <<>>
    /\ segTime = 0
    /\ bars = <<>>
    /\ structure = NoStructure
    /\ barIndex = 0
    /\ beatmap = <<>>
    /\ result = <<>>
    /\ trace = [NoTrace EXCEPT !.replay = TRUE]

\* the next draw of this run is the draw made at the same position of the run before
SameDraw(kind, d) ==
    \/ trace.runs < 2
    \/ /\ Len(trace.draws) < Len(trace.prevDraws)
       /\ trace.prevDraws[Len(trace.draws) + 1][1] = kind
       /\ trace.prevDraws[Len(trace.draws) + 1][2] = d

NextRuns ==
    \/ StartGeneration
    \/ SegmentBar
    \/ BeginStructure
    \/ StructureStep
    \/ StructureEnd
    \/ SameDraw("bar", <<FALSE, NoJitter>>) /\ ProcessBar(FALSE, NoJitter)
    \/ \E jit \in JitterPatterns : SameDraw("bar", <<TRUE, jit>>) /\ ProcessBar(TRUE, jit)
    \/ \E rndA \in [1..SustainDraws -> RandomValues], rndB \in [1..GroupDraws -> RandomValues] :
          SameDraw("finish", <<rndA, rndB>>) /\ FinishGeneration(rndA, rndB)

SpecRuns == InitRuns /\ [][NextRuns]_vars

-----------------------------------------------------------------------------
(* BeatmapAnalyzer.  A metric is a number of thousandths, or NaN, Infinity or
   NegInfinity. *)

NegInfinity == -999999997

AIsFinite(x) == x # NaN /\ x # Infinity /\ x # NegInfinity

\* a / b for finite integers a and b, in thousandths
ADivInt(a, b) ==
    IF b = 0 THEN (IF a = 0 THEN NaN ELSE IF a > 0 THEN Infinity ELSE NegInfinity)
    ELSE (a * 1000) \div b

\* a + b
ASum(a, b) ==
    IF a = NaN \/ b = NaN THEN NaN
    ELSE IF {a, b} = {Infinity, NegInfinity} THEN NaN
    ELSE IF a = Infinity \/ b = Infinity THEN Infinity
    ELSE IF a = NegInfinity \/ b = NegInfinity THEN NegInfinity
    ELSE a + b

\* x * num / den for finite positive num and den
AScale(x, num, den) == IF AIsFinite(x) THEN (x * num) \div den ELSE x

\* 1 - x
AOneMinus(x) ==
    IF x = NaN THEN NaN
    ELSE IF x = Infinity THEN NegInfinity
    ELSE IF x = NegInfinity THEN Infinity
    ELSE 1000 - x

\* Math.min(x, c) for a finite c
AMinC(x, c) ==
    IF x = NaN THEN NaN
    ELSE IF x = Infinity THEN c
    ELSE IF x = NegInfinity THEN NegInfinity
    ELSE Min2(x, c)

RECURSIVE ASumSeq(_)
ASumSeq(s) == IF s = <<>> THEN 0 ELSE ASum(Head(s), ASumSeq(Tail(s)))

\* Math.log2(n) for 1 <= n <= 64, in thousandths
Log2Table == <<
    0, 1000, 1585, 2000, 2322, 2585, 2807, 3000, 3170, 3322, 3459, 3585, 3700, 3807,
    3907, 4000, 4087, 4170, 4248, 4322, 4392, 4459, 4524, 4585, 4644, 4700, 4755, 4807,
    4858, 4907, 4954, 5000, 5044, 5087, 5129, 5170, 5209, 5248, 5285, 5322, 5358, 5392,
    5426, 5459, 5492, 5524, 5555, 5585, 5615, 5644, 5672, 5700, 5728, 5755, 5781, 5807,
    5833, 5858, 5883, 5907, 5931, 5954, 5977, 6000 >>

Log2Milli(n) == Log2Table[n]

SeqMax(s, floor) ==
    IF s = <<>> THEN floor
    ELSE LET top == CHOOSE x \in {s[i] : i \in 1..Len(s)} : \A i \in 1..Len(s) : s[i] <= x
         IN  Max2(top, floor)

\* extractNGrams
extractNGrams(beats, n) ==
    [i \in 1..Max2(Len(beats) - n + 1, 0) |->
        [k \in 1..n |-> <<beats[i + k - 1].lane, beats[i + k - 1].pattern,
                          HoldFlag(beats[i + k - 1])>>]]

\* sum over values of (value - mean)^2 / length, times length^2
VarianceNumerator(values) ==
    Len(values) * SumSeq([i \in 1..Len(values) |-> values[i] * values[i]])
        - SumSeq(values) * SumSeq(values)

\* analyzeDiversity
analyzeDiversity(beats) ==
    LET n == Len(beats)
        ngrams == extractNGrams(beats, 4)
        totalPatterns == Len(ngrams)
        uniqueNGrams == Cardinality({ngrams[i] : i \in 1..totalPatterns})
        IsFirst(i) == \A j \in 1..(i - 1) : ngrams[j] # ngrams[i]
        CountOf(i) == Cardinality({j \in 1..totalPatterns : ngrams[j] = ngrams[i]})
        \* - sum of p * log2(p) = log2(total) - sum of count * log2(count) / total
        entropy == IF totalPatterns = 0 THEN 0
                   ELSE Log2Milli(totalPatterns)
                        - SumSeq([i \in 1..totalPatterns |->
                                    IF IsFirst(i) THEN CountOf(i) * Log2Milli(CountOf(i))
                                    ELSE 0]) \div totalPatterns
        \* entropy / Math.log2(Math.min(totalPatterns, 16)); log2(0) is -Infinity
        patternEntropy == IF totalPatterns = 0 THEN 0
                          ELSE ADivInt(entropy, Log2Milli(Min2(totalPatterns, 16)))
        Repeats == {i \in 1..totalPatterns : ~IsFirst(i)}
        Prev(i) == CHOOSE j \in 1..(i - 1) :
                      /\ ngrams[j] = ngrams[i]
                      /\ \A k \in (j + 1)..(i - 1) : ngrams[k] # ngrams[i]
        distanceSum == SumSeq([i \in 1..totalPatterns |->
                                  IF i \in Repeats THEN i - Prev(i) ELSE 0])
        \* Math.min(avgRepetitionDistance / 16, 1), the average of no distance is Infinity
        repetitionDistance == IF Repeats = {} THEN 1000
                              ELSE Min2((distanceSum * 1000) \div (Cardinality(Repeats) * 16),
                                        1000)
        LaneCount(l) == Cardinality({i \in 1..n : beats[i].lane = l})
        laneBalance == IF n = 0 THEN NaN
                       ELSE 1000 - (SumSeq([l \in 1..4 |-> Abs(4 * LaneCount(l - 1) - n)])
                                       * 1000) \div (4 * n)
        holds == SelectSeq(beats, LAMBDA b: b.isHold)
        HoldPattern(b) == <<b.lane, IF b.holdDuration \in {undefined, NaN} THEN 0
                                    ELSE IF b.holdDuration = Infinity THEN Infinity
                                    ELSE b.holdDuration \div 100>>
        uniqueHoldPatterns == Cardinality({HoldPattern(holds[i]) : i \in 1..Len(holds)})
    IN  [patternEntropy |-> patternEntropy,
         ngramDiversity |-> (uniqueNGrams * 1000) \div Max2(totalPatterns, 1),
         repetitionDistance |-> repetitionDistance,
         laneBalance |-> laneBalance,
         holdVariety |-> IF Len(holds) > 0 THEN (uniqueHoldPatterns * 1000) \div Len(holds)
                         ELSE 0]

Hand(lane) == IF lane < 2 THEN "left" ELSE "right"

\* analyzeErgonomics
analyzeErgonomics(beats) ==
    LET n == Len(beats)
        Pairs == 2..n
        alternationCount == Cardinality({i \in Pairs : Hand(beats[i - 1].lane) # Hand(beats[i].lane)})
        jumpSum == SumSeq([k \in 1..(n - 1) |-> Abs(beats[k + 1].lane - beats[k].lane)])
        restPeriods == Cardinality({i \in Pairs : beats[i].time - beats[i - 1].time > 500})
        windowSize == 10
        \* window.length / Math.max(windowDuration, 0.1) for the window starting at i
        loads == [i \in 1..Max2(n - windowSize + 1, 0) |->
                    (windowSize * 1000000)
                        \div Max2(beats[i + windowSize - 1].time - beats[i].time, 100)]
        maxStaminaLoad == SeqMax(loads, 0)
        readabilityFactors ==
            [k \in 1..(n - 1) |->
                LET timeDiff == beats[k + 1].time - beats[k].time
                    laneDiff == Abs(beats[k + 1].lane - beats[k].lane)
                    timingScore == Min2(timeDiff * 5, 1000)
                    laneScore == 1000 - (laneDiff * 1000) \div 3
                IN  (timingScore + laneScore) \div 2]
    IN  IF n < 2
        THEN [handAlternation |-> 1000, jumpDistance |-> 0, restFrequency |-> 1000,
              staminaLoad |-> 0, readabilityScore |-> 1000]
        ELSE [handAlternation |-> (alternationCount * 1000) \div (n - 1),
              jumpDistance |-> Min2((jumpSum * 1000) \div (3 * (n - 1)), 1000),
              restFrequency |-> Min2((restPeriods * 5000) \div n, 1000),
              staminaLoad |-> Min2(maxStaminaLoad \div 10, 1000),
              readabilityScore |-> SumSeq(readabilityFactors) \div (n - 1)]

\* findSectionChanges
findSectionChanges(beats) ==
    SelectSeq(Indices(beats), LAMBDA i: i > 1 /\ beats[i].section # beats[i - 1].section)

SeqMin(s) == CHOOSE x \in {s[i] : i \in 1..Len(s)} : \A i \in 1..Len(s) : x <= s[i]

\* analyzeMusicality; Math.max() of no value is -Infinity and Math.min() is Infinity
analyzeMusicality(beats) ==
    LET n == Len(beats)
        sectionChanges == findSectionChanges(beats)
        strongBeats == SelectSeq(beats, LAMBDA b: b.type = "bass" \/ FLess(700, b.intensity))
        accentBeats == SelectSeq(beats, LAMBDA b: b.isAccent \/ FLess(800, b.intensity))
        phraseBreaks == Len(sectionChanges)
        intensities == [i \in 1..n |-> beats[i].intensity]
    IN  [beatAlignment |-> (Len(strongBeats) * 1000) \div Max2(n, 1),
         accentEmphasis |-> (Len(accentBeats) * 1000) \div Max2(n, 1),
         phraseCoherence |-> Min2((n * 1000) \div (Max2(phraseBreaks, 1) * 16), 1000),
         dynamicRange |-> IF n = 0 THEN NegInfinity
                          ELSE IF \E i \in 1..n : intensities[i] = NaN THEN NaN
                          ELSE SeqMax(intensities, SeqMin(intensities)) - SeqMin(intensities)]

LaneChanges(beats) ==
    Cardinality({i \in 2..Len(beats) : beats[i].lane # beats[i - 1].lane})

\* calculateTimingComplexity: Math.min(variance / avgInterval, 1)
calculateTimingComplexity(beats) ==
    LET intervals == [k \in 1..(Len(beats) - 1) |-> beats[k + 1].time - beats[k].time]
        k == Len(intervals)
        total == SumSeq(intervals)
        num == VarianceNumerator(intervals)
    IN  IF Len(beats) < 2 THEN 0
        ELSE IF total = 0 THEN (IF num = 0 THEN NaN ELSE 1000)
        ELSE Min2(num \div (k * total), 1000)

\* calculateWindowDifficulty
calculateWindowDifficulty(window) ==
    LET n == Len(window)
        avgIntensity == SumSeq([i \in 1..n |-> window[i].intensity]) \div n
        holdRatio == (Len(SelectSeq(window, LAMBDA b: b.isHold)) * 1000) \div n
    IN  IF n = 0 THEN 0
        ELSE (avgIntensity + (LaneChanges(window) * 1000) \div n + holdRatio) \div 3

\* calculateDifficultyProgression: windows of 30 beats every 15 beats
calculateDifficultyProgression(beats) ==
    LET windowSize == 30
        starts == IF Len(beats) < windowSize THEN 0
                  ELSE (Len(beats) - windowSize) \div (windowSize \div 2) + 1
    IN  [w \in 1..starts |->
            calculateWindowDifficulty(
                Slice(beats, (w - 1) * (windowSize \div 2),
                      (w - 1) * (windowSize \div 2) + windowSize))]

\* calculateVariance of values in thousandths, in thousandths
calculateVariance(values) ==
    IF Len(values) = 0 THEN 0
    ELSE VarianceNumerator(values) \div (Len(values) * Len(values) * 1000)

\* analyzePerformance
analyzePerformance(beats) ==
    LET n == Len(beats)
        holdComplexity == ADivInt(Len(SelectSeq(beats, LAMBDA b: b.isHold)), n)
        timingComplexity == calculateTimingComplexity(beats)
        complexity == AScale(ASum(ASum(ADivInt(LaneChanges(beats), n), holdComplexity),
                                  timingComplexity), 1, 3)
        windowSize == 20
        windowIntensity == [i \in 1..Max2(n - windowSize + 1, 0) |->
                               SumSeq([k \in 1..windowSize |-> beats[i + k - 1].intensity])
                                   \div windowSize]
        difficultyProgression == calculateDifficultyProgression(beats)
        learningCurve == 1000 - calculateVariance(difficultyProgression)
        patternTypes == Cardinality({beats[i].pattern : i \in 1..n})
        templateVariety == Cardinality({beats[i].templateName : i \in 1..n} \ {""})
        replayability == ADivInt((patternTypes + templateVariety) * 10, n)
    IN  [complexity |-> AMinC(complexity, 1000),
         peakIntensity |-> SeqMax(windowIntensity, 0),
         learningCurve |-> Max2(learningCurve, 0),
         replayability |-> AMinC(replayability, 1000)]

\* analyze
analyze(beats) ==
    [diversityMetrics |-> analyzeDiversity(beats),
     ergonomicsMetrics |-> analyzeErgonomics(beats),
     musicalityMetrics |-> analyzeMusicality(beats),
     performanceMetrics |-> analyzePerformance(beats)]

\* a weighted sum of metrics, the weights in hundredths
Weighted(terms) == ASumSeq([i \in 1..Len(terms) |-> AScale(terms[i][1], terms[i][2], 100)])

\* generateQualityScore: Math.round(totalScore * 100)
generateQualityScore(analytics) ==
    LET d == analytics.diversityMetrics
        e == analytics.ergonomicsMetrics
        m == analytics.musicalityMetrics
        p == analytics.performanceMetrics
        diversityScore == Weighted(<< <<d.patternEntropy, 30>>, <<d.ngramDiversity, 30>>,
                                      <<d.repetitionDistance, 20>>, <<d.laneBalance, 20>> >>)
        ergonomicsScore == Weighted(<< <<e.handAlternation, 30>>,
                                       <<AOneMinus(e.jumpDistance), 20>>,
                                       <<e.restFrequency, 20>>,
                                       <<AOneMinus(e.staminaLoad), 15>>,
                                       <<e.readabilityScore, 15>> >>)
        musicalityScore == Weighted(<< <<m.beatAlignment, 30>>, <<m.accentEmphasis, 25>>,
                                       <<m.phraseCoherence, 25>>, <<m.dynamicRange, 20>> >>)
        performanceScore == Weighted(<< <<p.complexity, 25>>, <<p.peakIntensity, 25>>,
                                        <<p.learningCurve, 25>>, <<p.replayability, 25>> >>)
        totalScore == Weighted(<< <<diversityScore, 25>>, <<ergonomicsScore, 25>>,
                                  <<musicalityScore, 25>>, <<performanceScore, 25>> >>)
    IN  IF AIsFinite(totalScore) THEN (totalScore + 5) \div 10 ELSE totalScore

\* the metrics of an analytics record
MetricsOf(analytics) ==
    {analytics[g][f] : <<g, f>> \in
        ({"diversityMetrics"} \X {"patternEntropy", "ngramDiversity", "repetitionDistance",
                                  "laneBalance", "holdVariety"})
        \cup ({"ergonomicsMetrics"} \X {"handAlternation", "jumpDistance", "restFrequency",
                                        "staminaLoad", "readabilityScore"})
        \cup ({"musicalityMetrics"} \X {"beatAlignment", "accentEmphasis",
                                        "phraseCoherence", "dynamicRange"})
        \cup ({"performanceMetrics"} \X {"complexity", "peakIntensity", "learningCurve",
                                         "replayability"})}

(* The analyzer on its own inputs: beat lists built beat by beat, from the empty
   list and from a list just shorter than the largest metric window. *)

MaxAnalyzed == 5
SeedLength == 28

AnalyzerBeat(t, l, hold) ==
    [time |-> t, intensity |-> 600, frequency |-> 440, type |-> "melody", lane |-> l,
     pattern |-> "template", section |-> "verse", isAccent |-> FALSE, isHold |-> hold,
     holdDuration |-> IF hold THEN 500 ELSE undefined, templateName |-> "SteadyBeat",
     barIndex |-> 0]

AnalyzerSeed == [i \in 1..SeedLength |-> AnalyzerBeat(500 * (i - 1), (i - 1) % 4, FALSE)]

\* the gap to the previous beat, the lane and the hold flag of the next beat
AnalyzerSteps == {<<600, 0, FALSE>>, <<600, 3, FALSE>>, <<0, 0, FALSE>>, <<300, 2, TRUE>>}

InitAnalyze ==
    /\ bpm = 120 /\ duration = 0 /\ rawBeats = OnsetsNone /\ energy = EnergyEmpty
    /\ difficulty = DifficultyEasy
    /\ Constructed
    /\ phase = "idle" /\ onsets = <<>> /\ segTime = 0 /\ bars = <<>>
    /\ structure = NoStructure /\ barIndex = 0 /\ result = <<>>
    /\ beatmap \in {<<>>, AnalyzerSeed}
    /\ trace = NoTrace

\* one more beat on the list that will be analyzed
AnalyzerExtend(step) ==
    /\ Len(beatmap) % SeedLength < MaxAnalyzed
    /\ beatmap' = Append(beatmap,
                         AnalyzerBeat((IF beatmap = <<>> THEN 0
                                       ELSE beatmap[Len(beatmap)].time) + step[1],
                                      step[2], step[3]))
    /\ trace' = [trace EXCEPT !.analysis = NoAnalysis]
    /\ UNCHANGED <<inputVars, genVars, memVars, phase, onsets, segTime, bars, structure,
                   barIndex, result>>

\* analyzer.analyze(beatmap) and analyzer.generateQualityScore(analytics)
AnalyzeBeatmap ==
    /\ ~trace.analysis.done
    /\ \E analytics \in {analyze(beatmap)} :
          trace' = [trace EXCEPT !.analysis =
                       [done |-> TRUE, analytics |-> analytics,
                        qualityScore |-> generateQualityScore(analytics)]]
    /\ UNCHANGED <<inputVars, genVars, memVars, phase, onsets, segTime, bars, structure,
                   barIndex, beatmap, result>>

NextAnalyze ==
    \/ \E step \in AnalyzerSteps : AnalyzerExtend(step)
    \/ AnalyzeBeatmap

SpecAnalyze == InitAnalyze /\ [][NextAnalyze]_vars

-----------------------------------------------------------------------------
(* modifyBeatmapForStage7.  A beat carries in `origin` its position in the
   input list, 0 for a beat the function added. *)

MIN_SPACING == 120

\* faulty variant: the multiplier of hard at every difficulty
MAX_ADDITIVE_NOTES_HARD(n, level) == (n * 21) \div 100

\* Math.floor(originalBeatmap.length * 0.15 * difficultyMultiplier)
MAX_ADDITIVE_NOTES(n, level) ==
    (n * (IF level = "easy" THEN 9 ELSE IF level = "hard" THEN 21 ELSE 15)) \div 100

chorusBeatsOf(bm) ==
    SelectSeq(bm, LAMBDA b: b.section = "chorus" /\ b.type \in {"bass", "melody"})

echoBeat(chorusBeat) ==
    [time |-> chorusBeat.time + 150, type |-> chorusBeat.type,
     frequency |-> chorusBeat.frequency, intensity |-> chorusBeat.intensity,
     lane |-> (chorusBeat.lane + 2) % 4, pattern |-> "dense", section |-> "chorus",
     isAccent |-> FALSE, isHold |-> FALSE, holdDuration |-> 0,
     templateName |-> "chorus-echo", barIndex |-> undefined, origin |-> 0]

\* 1. chorus burst fills; st = [bm, addedNotes], index is 0-based
RECURSIVE ChorusEchoes(_, _, _, _)
ChorusEchoes(st, chorus, index, maxNotes) ==
    IF index >= Len(chorus) THEN st
    ELSE LET echo == echoBeat(chorus[index + 1])
             hasConflict == \E i \in 1..Len(st.bm) :
                               Abs(st.bm[i].time - echo.time) < MIN_SPACING
         IN  ChorusEchoes(
                 IF st.addedNotes < maxNotes /\ ~hasConflict /\ index % 2 = 0
                 THEN [bm |-> Append(st.bm, echo), addedNotes |-> st.addedNotes + 1]
                 ELSE st,
                 chorus, index + 1, maxNotes)

\* 2. chorus signature holds on every 4th chorus accent
RECURSIVE ChorusHolds(_, _, _)
ChorusHolds(bm, chorus, index) ==
    IF index >= Len(chorus) THEN bm
    ELSE LET Matches == {i \in 1..Len(bm) : /\ bm[i].time = chorus[index + 1].time
                                            /\ bm[i].lane = chorus[index + 1].lane}
             beatIndex == CHOOSE i \in Matches : \A j \in Matches : i <= j
         IN  ChorusHolds(
                 IF index % 4 = 3 /\ Matches # {}
                 THEN [bm EXCEPT ![beatIndex] =
                          [@ EXCEPT !.isHold = TRUE, !.holdDuration = 300, !.type = "hold"]]
                 ELSE bm,
                 chorus, index + 1)

\* x || fallback on numbers
OrDefault(x, fallback) == IF x = 0 \/ x = NaN \/ x = undefined THEN fallback ELSE x

sweepBeat(firstChorusBeat, sweepStartTime, lane, i) ==
    [time |-> sweepStartTime + i * 150, type |-> "hold",
     frequency |-> OrDefault(firstChorusBeat.frequency, 200),
     intensity |-> OrDefault(firstChorusBeat.intensity, 500),
     lane |-> lane, pattern |-> "zigzag", section |-> "chorus",
     isAccent |-> FALSE, isHold |-> TRUE, holdDuration |-> 400,
     templateName |-> "zigzag-sweep", barIndex |-> undefined, origin |-> 0]

zigzagLanes == <<0, 3, 1, 2>>

\* 3. zigzag sweep opener before the first chorus beat
ZigzagSweep(st, maxNotes) ==
    LET Chorus == {i \in 1..Len(st.bm) : st.bm[i].section = "chorus"}
        firstChorusBeat == st.bm[CHOOSE i \in Chorus : \A j \in Chorus : i <= j]
        sweepStartTime == firstChorusBeat.time - 800
        hasSweepConflict == \E i \in 1..Len(st.bm) :
                               /\ st.bm[i].time >= sweepStartTime
                               /\ st.bm[i].time <= sweepStartTime + 600
    IN  IF Chorus # {} /\ st.addedNotes < maxNotes - 4
           /\ ~hasSweepConflict /\ sweepStartTime > 0
        THEN [bm |-> st.bm \o [i \in 1..4 |->
                         sweepBeat(firstChorusBeat, sweepStartTime, zigzagLanes[i], i - 1)],
              addedNotes |-> st.addedNotes + 4]
        ELSE st

WaveLane(lane) ==
    IF lane = 0 THEN 1
    ELSE IF lane = 3 THEN 2
    ELSE IF lane = 1 THEN 2
    ELSE IF lane = 2 THEN 3
    ELSE lane

\* 4. lane choreography polish, in place over the sorted list, i from 1 (0-based)
RECURSIVE WaveRotation(_, _)
WaveRotation(bm, i) ==
    IF i > Len(bm) - 1 THEN bm
    ELSE WaveRotation(
             IF /\ bm[i].lane = bm[i - 1].lane /\ bm[i].lane = bm[i + 1].lane
                /\ bm[i].time - bm[i - 1].time < 500
                /\ bm[i + 1].time - bm[i].time < 500
             THEN [bm EXCEPT ![i].lane = WaveLane(@)]
             ELSE bm,
             i + 1)

\* faulty variant: a safety enforcement that removes nothing
SafetyFilterNone(sorted) == sorted

\* 5. safety enforcement over the sorted list
SafetyFilter(sorted) ==
    LET keepIdx == SelectSeq(Indices(sorted), LAMBDA i:
                      \/ i = 1
                      \/ ~(sorted[i].time - sorted[i - 1].time < MIN_SPACING)
                      \/ sorted[i].templateName \notin {"chorus-echo", "zigzag-sweep"})
    IN  [k \in 1..Len(keepIdx) |-> sorted[keepIdx[k]]]

\* steps 1 to 3: the list with the added beats, and their number
Stage7Additions(originalBeatmap, level) ==
    LET maxNotes == MAX_ADDITIVE_NOTES(Len(originalBeatmap), level)
        chorus == chorusBeatsOf(originalBeatmap)
        echoed == ChorusEchoes([bm |-> originalBeatmap, addedNotes |-> 0], chorus, 0,
                               maxNotes)
        held == [echoed EXCEPT !.bm = ChorusHolds(@, chorus, 0)]
    IN  ZigzagSweep(held, maxNotes)

modifyBeatmapForStage7(originalBeatmap, level) ==
    IF Len(originalBeatmap) = 0 THEN originalBeatmap
    ELSE SafetyFilter(
             WaveRotation(SortByTime(Stage7Additions(originalBeatmap, level).bm), 2))

\* the positions of the working list that step 2 replaced by a spread copy
HeldPositions(bm, chorus) ==
    {CHOOSE i \in 1..Len(bm) :
          /\ bm[i].time = chorus[k].time /\ bm[i].lane = chorus[k].lane
          /\ \A j \in 1..(i - 1) :
                 ~(bm[j].time = chorus[k].time /\ bm[j].lane = chorus[k].lane)
        : k \in {c \in 1..Len(chorus) : (c - 1) % 4 = 3}}

\* the beats of originalBeatmap after the call: [...originalBeatmap] copies the
\* array and shares the beat objects, and step 4 assigns current.lane on the
\* shared objects; the objects step 2 replaced by copies are out of its reach
InputAfterStage7(originalBeatmap, level) ==
    IF Len(originalBeatmap) = 0 THEN originalBeatmap
    ELSE LET added == Stage7Additions(originalBeatmap, level).bm
             rotated == WaveRotation(SortByTime(added), 2)
             held == HeldPositions(added, chorusBeatsOf(originalBeatmap))
         IN  [p \in 1..Len(originalBeatmap) |->
                 IF p \in held THEN originalBeatmap[p]
                 ELSE [originalBeatmap[p] EXCEPT !.lane =
                          rotated[CHOOSE i \in 1..Len(rotated) :
                                      rotated[i].origin = p].lane]]

(* modifyBeatmapForStage7 on its own inputs: beat lists built beat by beat, from
   the empty list and from a list long enough for the sweep to be allowed. *)

MaxStage7 == 4
Stage7SeedLength == 25

DifficultyLevels == {"easy", "medium", "hard"}

Stage7Beat(t, sec, type, l, pos) ==
    [time |-> t, type |-> type, frequency |-> 440, intensity |-> 600, lane |-> l,
     pattern |-> "template", section |-> sec, isAccent |-> FALSE, isHold |-> FALSE,
     holdDuration |-> undefined, templateName |-> "SteadyBeat", barIndex |-> 0,
     origin |-> pos]

Stage7Seed ==
    [i \in 1..Stage7SeedLength |-> Stage7Beat(200 * (i - 1), "verse", "kick", (i - 1) % 4, i)]

\* the gap to the previous beat, the section, the type and the lane of the next beat
Stage7Steps ==
    {<<1000, "chorus", "bass", 0>>, <<850, "chorus", "melody", 3>>,
     <<160, "chorus", "bass", 0>>, <<280, "verse", "kick", 0>>,
     <<100, "verse", "kick", 1>>}

NoStage7 == [level |-> "none", addedNotes |-> 0, added |-> <<>>]

InitStage7 ==
    /\ bpm = 120 /\ duration = 0 /\ rawBeats = OnsetsNone /\ energy = EnergyEmpty
    /\ difficulty = DifficultyEasy
    /\ Constructed
    /\ phase = "idle" /\ onsets = <<>> /\ segTime = 0 /\ bars = <<>>
    /\ structure = NoStructure /\ barIndex = 0 /\ result = <<>>
    /\ beatmap \in {<<>>, Stage7Seed}
    /\ trace = NoTrace

\* one more beat on the generated beatmap that will be modified
Stage7Extend(step) ==
    /\ Len(beatmap) % Stage7SeedLength < MaxStage7
    /\ beatmap' = Append(beatmap,
                         Stage7Beat((IF beatmap = <<>> THEN 0
                                     ELSE beatmap[Len(beatmap)].time) + step[1],
                                    step[2], step[3], step[4], Len(beatmap) + 1))
    /\ result' = <<>>
    /\ trace' = [trace EXCEPT !.stage7 = NoStage7]
    /\ UNCHANGED <<inputVars, genVars, memVars, phase, onsets, segTime, bars, structure,
                   barIndex>>

\* generatedBeatmap = modifyBeatmapForStage7(generatedBeatmap, difficulty)
Stage7Modify(level) ==
    /\ trace.stage7.level = "none"
    /\ result' = modifyBeatmapForStage7(beatmap, level)
    /\ beatmap' = InputAfterStage7(beatmap, level)
    \* the beats pushed by steps 1 and 3, in the order of the pushes
    /\ trace' = [trace EXCEPT !.stage7 =
                    [level |-> level,
                     addedNotes |-> IF beatmap = <<>> THEN 0
                                    ELSE Stage7Additions(beatmap, level).addedNotes,
                     added |-> IF beatmap = <<>> THEN <<>>
                               ELSE LET bm == Stage7Additions(beatmap, level).bm
                                    IN  SubSeq(bm, Len(beatmap) + 1, Len(bm))]]
    /\ UNCHANGED <<inputVars, genVars, memVars, phase, onsets, segTime, bars, structure,
                   barIndex>>

NextStage7 ==
    \/ \E step \in Stage7Steps : Stage7Extend(step)
    \/ \E level \in DifficultyLevels : Stage7Modify(level)

SpecStage7 == InitStage7 /\ [][NextStage7]_vars

-----------------------------------------------------------------------------
(* Properties *)

Returned == phase = "complete"

ResultBeats == {result[i] : i \in 1..Len(result)}

\* C1: the list generateBeatmap returns is sorted ascending by time:
\* beats[i].time <= beats[i+1].time for every i
C1_TimeOrdered ==
    Returned => \A i \in 1..(Len(result) - 1) : result[i].time <= result[i + 1].time

\* a run returned whose bars reached the post-processing out of time order
C1_Witness ==
    Returned /\ trace.disordered /\ Len(result) >= 2

\* C2: every beat generateBeatmap returns has its lane in {0, 1, 2, 3}, whichever
\* lane-rewriting pass ran
C2_LaneValid ==
    \A b \in ResultBeats : b.lane \in 0..3

\* a run returned after the anti-repetition lane shift was applied to a bar
C2_Witness ==
    Returned /\ trace.varied /\ result # <<>>

\* C3: every returned hold has holdDuration > 0 and ends within the song:
\* beat.time + holdDuration <= duration
C3_HoldWellFormed ==
    \A b \in ResultBeats :
        b.isHold => (b.holdDuration > 0 /\ b.time + b.holdDuration <= duration)

\* C4: every returned beat has 0 <= time <= song duration
C4_TimeInRange ==
    \A b \in ResultBeats : 0 <= b.time /\ b.time <= duration

Degenerate == duration = 0 \/ energy = <<>> \/ rawBeats = <<>>

NumberOk(x) == x # NaN /\ x # Infinity

\* C5: on duration = 0, energy = [] or beats = [], generateBeatmap does not throw,
\* returns the empty list when duration = 0, and returns no beat with a NaN or
\* infinite time, intensity, frequency, lane or holdDuration
C5_DegenerateSafe ==
    Degenerate =>
        /\ ~trace.threw
        /\ Returned /\ duration = 0 => result = <<>>
        /\ \A b \in ResultBeats :
              /\ NumberOk(b.time) /\ NumberOk(b.intensity) /\ NumberOk(b.frequency)
              /\ NumberOk(b.lane) /\ NumberOk(b.holdDuration)

\* a run on an empty energy array returned holds
C5_Witness ==
    Returned /\ energy = <<>> /\ \E b \in ResultBeats : b.isHold

\* C6: generateBeatmap is total: every run that starts returns a beat list
C6_Terminates ==
    (phase = "segmenting") ~> (phase = "complete")

\* C7: for bpm > 0 and duration > 0 the bars are contiguous from 0, each
\* (60/bpm)*4 long but the last, which ends at duration; their number is
\* ceil(duration / barLength); bpm 120 and 8 s give [0,2), [2,4), [4,6), [6,8)
C7_BarCoverage ==
    (phase = "analyzing" /\ IsFinite(bpm) /\ bpm > 0 /\ duration > 0) =>
        LET barLength == BarDurationOf(bpm)
            n == Len(bars)
        IN  /\ n = (duration + barLength - 1) \div barLength
            /\ bars[1].startTime = 0
            /\ \A i \in 1..(n - 1) :
                  /\ bars[i].endTime = bars[i + 1].startTime
                  /\ bars[i].endTime - bars[i].startTime = barLength
            /\ bars[n].endTime = duration
            /\ bars[n].endTime - bars[n].startTime <= barLength
            /\ (bpm = 120 /\ duration = 8000) =>
                  [i \in 1..n |-> <<bars[i].startTime, bars[i].endTime>>]
                      = << <<0, 2000>>, <<2000, 4000>>, <<4000, 6000>>, <<6000, 8000>> >>

\* segmentIntoBars returned the four bars of the 120 bpm, 8 s song
C7_Witness ==
    phase = "analyzing" /\ bpm = 120 /\ duration = 8000 /\ Len(bars) = 4

\* C8: for duration > 0 the sections of analyzeSongStructure partition [0, duration]:
\* the first starts at 0, each ends where the next starts, each has start < end,
\* and the last ends at duration
C8_SectionPartition ==
    (structure.done /\ duration > 0) =>
        LET secs == structure.sections
            n == Len(secs)
        IN  /\ n >= 1
            /\ secs[1].start = 0
            /\ secs[n].end = duration
            /\ \A i \in 1..n : secs[i].start < secs[i].end
            /\ \A i \in 1..(n - 1) : secs[i].end = secs[i + 1].start

\* analyzeSongStructure returned at least three sections
C8_Witness ==
    structure.done /\ duration > 0 /\ Len(structure.sections) >= 3

SectionSpans(secs) == [i \in 1..Len(secs) |-> <<secs[i].type, secs[i].start, secs[i].end>>]

C10_RepetitiveIff ==
    trace.asked =>
        (trace.answer <=>
            /\ Len(trace.query) >= memConfig.ngramSize
            /\ \E k \in 1..Len(patternHistory) :
                  /\ patternHistory[k].sequence = createSequenceKey(trace.query, memConfig)
                  /\ \/ beatCounter - patternHistory[k].lastUsed
                            < memConfig.minRepetitionDistance
                     \/ patternHistory[k].frequency > 3)

\* a query answered true for a key last used at least minRepetitionDistance beats
\* ago, on its frequency alone
C10_Witness ==
    /\ trace.asked /\ trace.answer
    /\ \E k \in 1..Len(patternHistory) :
          /\ patternHistory[k].sequence = createSequenceKey(trace.query, memConfig)
          /\ beatCounter - patternHistory[k].lastUsed >= memConfig.minRepetitionDistance
          /\ patternHistory[k].frequency = 4

\* C11: right after recordPattern recorded a bar of at least ngramSize beats,
\* wouldBeRepetitive on beats with the same sequence key answers true, whatever
\* the length of the bar; and for a key last used minRepetitionDistance + 1
\* beats back with frequency 1 it answers false
C11_RepetitionGate ==
    trace.asked =>
        /\ (/\ Len(trace.recorded) >= memConfig.ngramSize
            /\ Len(trace.query) >= memConfig.ngramSize
            /\ createSequenceKey(trace.query, memConfig)
                    = createSequenceKey(trace.recorded, memConfig))
               => trace.answer
        /\ (\E k \in 1..Len(patternHistory) :
                /\ patternHistory[k].sequence = createSequenceKey(trace.query, memConfig)
                /\ Len(trace.query) >= memConfig.ngramSize
                /\ patternHistory[k].frequency = 1
                /\ beatCounter - patternHistory[k].lastUsed
                        = memConfig.minRepetitionDistance + 1)
               => ~trace.answer

\* C12: recordPattern with fewer than ngramSize beats changes neither the history
\* nor the beat counter; with at least ngramSize beats the record of the same key
\* has its frequency incremented and its lastUsed set, or a new record of
\* frequency 1 is in the history, and the counter advanced by beats.length
C12_RecordEffect ==
    [][(trace'.op = "record") =>
        LET beats == trace'.recorded
            key   == createSequenceKey(beats, memConfig)
            old   == {k \in 1..Len(patternHistory) : patternHistory[k].sequence = key}
        IN  IF Len(beats) < memConfig.ngramSize
            THEN patternHistory' = patternHistory /\ beatCounter' = beatCounter
            ELSE /\ beatCounter' = beatCounter + Len(beats)
                 /\ \E j \in 1..Len(patternHistory') :
                        /\ patternHistory'[j].sequence = key
                        /\ patternHistory'[j].lastUsed = beatCounter
                        /\ IF old = {}
                           THEN patternHistory'[j].frequency = 1
                           ELSE \E k \in old :
                                   patternHistory'[j].frequency
                                       = patternHistory[k].frequency + 1]_vars

\* C13: of two consecutive calls of selectNewTemplateForSection in a run, each
\* with at least 2 candidates, the second never chooses the template the first chose
C13_NoImmediateReselection ==
    \A i \in 1..(Len(trace.selected) - 1) :
        (trace.selected[i][2] >= 2 /\ trace.selected[i + 1][2] >= 2)
            => trace.selected[i + 1][1] # trace.selected[i][1]

\* C14: a second call of generateBeatmap on the same generator, with the same
\* input and the same random draws as the call before, returns the same beatmap
C14_RunsIndependent ==
    (phase = "complete" /\ trace.runs >= 2 /\ trace.draws = trace.prevDraws)
        => result = trace.prevResult

\* C15: reset() leaves an empty history and a beat counter of 0, after which
\* wouldBeRepetitive is false for every beat list; generateBeatmap resets before
\* its first bar is checked, so the first bar of a run is never flagged
C15_ResetBeforeFirstBar ==
    /\ (phase \in {"segmenting", "analyzing"} /\ barIndex = 0) =>
            /\ patternHistory = <<>>
            /\ beatCounter = 0
            /\ \A beats \in MemBeatInputs :
                   ~wouldBeRepetitive(patternHistory, beatCounter, memConfig, beats)
    /\ (phase = "analyzing" /\ barIndex = 1) => ~trace.varied

\* the first bar of a second run has been checked and recorded: the memory holds
\* the record of that bar alone
C15_Witness ==
    /\ trace.runs >= 2
    /\ phase = "analyzing"
    /\ barIndex = 1
    /\ Len(patternHistory) = 1
    /\ beatCounter >= memConfig.ngramSize

\* C16: with holdNoteFrequency = 0 the hold passes (addSustainedHolds,
\* createComplexHoldPattern, addRepeatingHoldPatterns) change no beat's lane, isHold
\* or holdDuration, and every hold of the output was generated from a holdSteps
\* position of its bar's template
C16_NoAddedHolds ==
    (phase = "complete" /\ difficulty.holdNoteFrequency = 0) =>
        /\ ~trace.holdPass.changed
        /\ \A i \in 1..Len(result) :
               result[i].isHold =>
                   /\ <<result[i].barIndex, result[i].time>> \in trace.holdPass.template
                   /\ \E k \in 1..Len(PATTERN_TEMPLATES) :
                          /\ PATTERN_TEMPLATES[k].name = result[i].templateName
                          /\ PATTERN_TEMPLATES[k].holdSteps # {}

\* a run with holdNoteFrequency 0 whose beatmap had a sustained melody section with
\* beats in it and a repeating group, and whose output holds a template hold
C16_Witness ==
    /\ phase = "complete"
    /\ difficulty.holdNoteFrequency = 0
    /\ trace.holdPass.sustained > 0
    /\ trace.holdPass.groups > 0
    /\ \E i \in 1..Len(result) : result[i].isHold

\* C17: for every beat list, the empty list and lists shorter than the metric
\* windows included, every metric of analyze is a finite number and
\* generateQualityScore is an integer in [0, 100]
C17_MetricsFinite ==
    trace.analysis.done =>
        /\ \A x \in MetricsOf(trace.analysis.analytics) : AIsFinite(x)
        /\ trace.analysis.qualityScore \in 0..100

\* C18: in the list generateBeatmap returned, the beats sharing one barIndex are
\* never more than the difficulty's noteCapacity
C18_NoteCapacity ==
    Returned =>
        \A k \in {result[i].barIndex : i \in 1..Len(result)} :
            Cardinality({i \in 1..Len(result) : result[i].barIndex = k})
                <= difficulty.noteCapacity

\* C19: in the list modifyBeatmapForStage7 returns, no added beat (chorus-echo or
\* zigzag-sweep) is closer than 0.12 s to the beat just before it or just after
\* it, and every beat of the input is still present
C19_AddedSpacing ==
    trace.stage7.level # "none" =>
        /\ \A i \in 1..Len(result) :
               result[i].origin = 0 =>
                   /\ i > 1 => result[i].time - result[i - 1].time >= MIN_SPACING
                   /\ i < Len(result) => result[i + 1].time - result[i].time >= MIN_SPACING
        /\ \A k \in 1..Len(beatmap) :
               \E i \in 1..Len(result) :
                   result[i].origin = k /\ result[i].time = beatmap[k].time

\* a call that added echoes and a sweep, returned some of each, lost an added
\* beat to the final filter, and kept an input beat closer than 0.12 s to the beat
\* before it
C19_Witness ==
    /\ trace.stage7.level # "none"
    /\ \E i \in 1..Len(result) : result[i].templateName = "chorus-echo"
    /\ \E i \in 1..Len(result) : result[i].templateName = "zigzag-sweep"
    /\ Len(result) < Len(beatmap) + trace.stage7.addedNotes
    /\ \E i \in 2..Len(result) :
           result[i].origin # 0 /\ result[i].time - result[i - 1].time < MIN_SPACING

\* C20: for every bar of segmentIntoBars, the shortened final bar included, a
\* classified onset is among the bar's onsets if and only if
\* bar.startTime <= onset.time < bar.endTime
C20_BarOnsets ==
    phase = "analyzing" =>
        \A i \in 1..Len(bars) : \A k \in 1..Len(onsets) :
            (\E j \in 1..Len(bars[i].onsets) : bars[i].onsets[j] = onsets[k])
                <=> (bars[i].startTime <= onsets[k].time
                        /\ FLess(onsets[k].time, bars[i].endTime))

\* the window positions the loop of analyzeSongStructure visits
WindowPositions(en) ==
    {i \in 1..Len(en) : i % EnergyWindowSize(en) = 0 /\ i < Len(en) - EnergyWindowSize(en)}

\* C21: at a window position analyzeSongStructure closes the current section and
\* opens a new one exactly when the windowed mean there differs by more than 0.15
\* from the windowed mean at which the current section was opened; a contour that
\* never leaves 0.15 around its first window gives one section over [0, duration]
C21_BoundaryRule ==
    /\ [][(phase = "analyzing" /\ ~structure.done /\ ~structure'.done) =>
            LET currentEnergy == WindowEnergy(energy, structure.i, structure.w)
                timePosition == TimePosition(structure.i, energy, duration)
                n == Len(structure.sections)
            IN  IF Abs(currentEnergy - structure.lastSectionEnergy) > energyThreshold
                THEN /\ Len(structure'.sections) = n + 1
                     /\ structure'.sections[n + 1].start = structure.currentSectionStart
                     /\ structure'.sections[n + 1].end = timePosition
                     /\ structure'.sections[n + 1].energy = structure.lastSectionEnergy
                     /\ structure'.currentSectionStart = timePosition
                     /\ structure'.lastSectionEnergy = currentEnergy
                ELSE /\ structure'.sections = structure.sections
                     /\ structure'.currentSectionStart = structure.currentSectionStart
                     /\ structure'.lastSectionEnergy = structure.lastSectionEnergy]_vars
    /\ []((structure.done
              /\ \A i \in WindowPositions(energy) :
                     Abs(WindowEnergy(energy, i, EnergyWindowSize(energy))
                            - WindowEnergy(energy, 0, EnergyWindowSize(energy)))
                         <= energyThreshold)
            => /\ Len(structure.sections) = 1
               /\ structure.sections[1].start = 0
               /\ structure.sections[1].end = duration)

\* the structure of a contour that moves by 0.24 between two windows without ever
\* leaving 0.15 around its first window: one section
C21_Witness ==
    /\ structure.done
    /\ energy = EnergyWobble
    /\ Len(structure.sections) = 1
    /\ structure.sections[1].end = duration

\* the type C22 gives a section: position first, energy second, and outro for a
\* final section shorter than 20 s
StatedSectionType(sec, isFinal) ==
    IF isFinal /\ sec.end - sec.start < 20000 THEN "outro"
    ELSE IF sec.end * 100 <= 15 * duration THEN "intro"
    ELSE IF sec.start * 100 >= 85 * duration THEN "outro"
    ELSE IF sec.energy > 750 THEN "chorus"
    ELSE IF sec.energy < 350 THEN "bridge"
    ELSE "verse"

\* C22: every section of analyzeSongStructure is typed by position first and energy
\* second: intro when it lies in the first 15%, outro when it lies in the last 15%,
\* otherwise chorus / bridge / verse by its energy, a final section shorter than
\* 20 s being outro; the first section is intro
C22_SectionTyping ==
    (structure.done /\ duration > 0) =>
        LET secs == structure.sections
        IN  /\ \A i \in 1..Len(secs) :
                   secs[i].type = StatedSectionType(secs[i], i = Len(secs))
            /\ secs[1].type = "intro"

\* the beats the last bar appended to the beatmap
EmittedBeats == SubSeq(beatmap', Len(beatmap) + 1, Len(beatmap'))

\* a step of bars.forEach that completed a bar
BarStep == phase = "analyzing" /\ phase' = "analyzing" /\ barIndex' = barIndex + 1

-----------------------------------------------------------------------------
(* The constructor of BeatmapGenerator over tempos, energy contours and bases *)

SpeedBpmInputs == {60, 79, 80, 100, 120, 121, 140, 141, 200, 0, -100, Infinity, NaN}

SpeedEnergyInputs ==
    {EnergyEmpty, EnergyFlat, Repeat(600, 4), <<900, 400>>, Repeat(800, 4),
     <<800, 801>>, Repeat(900, 4)}

\* the base multipliers of DIFFICULTY_CONFIGS, and bases outside the clamp range
SpeedDifficulties ==
    {[DifficultyEasy EXCEPT !.speedMultiplier = m] : m \in {500, 800, 1000, 1300, 1500}}

\* the fields as their initialisers leave them, before the constructor body runs
InitSpeed ==
    /\ bpm \in SpeedBpmInputs
    /\ duration = 0
    /\ rawBeats = OnsetsNone
    /\ energy \in SpeedEnergyInputs
    /\ difficulty \in SpeedDifficulties
    /\ speedMultiplier = 1000
    /\ currentTemplate = 0
    /\ templateRotationIndex = 0
    /\ lastSectionType = "null"
    /\ memConfig = GeneratorMemConfig
    /\ patternHistory = <<>>
    /\ beatCounter = 0
    /\ phase = "constructing"
    /\ onsets = <<>>
    /\ segTime = 0
    /\ bars = <<>>
    /\ structure = NoStructure
    /\ barIndex = 0
    /\ beatmap = <<>>
    /\ result = <<>>
    /\ trace = NoTrace

\* the constructor body: this.speedMultiplier = this.calculateSpeedMultiplier()
Construct ==
    /\ phase = "constructing"
    /\ speedMultiplier' = calculateSpeedMultiplier(bpm, energy, difficulty)
    /\ phase' = "idle"
    /\ UNCHANGED <<inputVars, currentTemplate, templateRotationIndex, lastSectionType,
                   memVars, onsets, segTime, bars, structure, barIndex, beatmap,
                   result, trace>>

NextSpeed == Construct

SpecSpeed == InitSpeed /\ [][NextSpeed]_vars

\* the adjustments as stated, with the comparisons of IEEE numbers
StatedBpmAdjustment ==
    IF FLess(140, bpm) THEN 150
    ELSE IF FLess(120, bpm) THEN 100
    ELSE IF FLess(bpm, 80) THEN 50
    ELSE 0

StatedEnergyAdjustment ==
    IF energy # <<>> /\ SumSeq(energy) > 800 * Len(energy) THEN 100
    ELSE IF energy # <<>> /\ SumSeq(energy) > 600 * Len(energy) THEN 50
    ELSE 0

StatedSpeed == difficulty.speedMultiplier + StatedBpmAdjustment + StatedEnergyAdjustment

\* C26: the speedMultiplier of a constructed generator is the base multiplier plus
\* the BPM adjustment plus the mean-energy adjustment, clamped to [0.8, 1.4], and so
\* lies in [0.8, 1.4] for every base, bpm and energy array, the empty one included
C26_SpeedMultiplier ==
    phase = "idle" =>
        /\ speedMultiplier = (IF StatedSpeed < 800 THEN 800
                              ELSE IF StatedSpeed > 1400 THEN 1400
                              ELSE StatedSpeed)
        /\ speedMultiplier >= 800
        /\ speedMultiplier <= 1400

\* a generator constructed for a medium tempo and a medium mean energy, unclamped
C26_Witness ==
    /\ phase = "idle"
    /\ bpm = 121
    /\ energy = <<900, 400>>
    /\ speedMultiplier = difficulty.speedMultiplier + 150
    /\ speedMultiplier < 1400

-----------------------------------------------------------------------------
(* PatternMemory under all of its public operations *)

MemOpsBeatInputs ==
    {BeatsA, BeatsB, Taps(<<2, 3, 0, 1>>), Taps(<<3, 0, 1, 2>>), BeatsHold, BeatsShort}

InitMemOps ==
    /\ InitMem
    /\ memConfig \in {DefaultMemConfig, SmallMemConfig}

\* patternMemory.getDiversityScore()
MemDiversity ==
    /\ trace' = [trace EXCEPT !.asked = FALSE, !.query = <<>>, !.answer = FALSE,
                              !.op = "diversity", !.cooldown = {},
                              !.score = getDiversityScore(patternHistory)]
    /\ UNCHANGED <<patternHistory, beatCounter>>
    /\ MemFrame

\* patternMemory.getCooldownPatterns()
MemCooldown ==
    /\ trace' = [trace EXCEPT !.asked = FALSE, !.query = <<>>, !.answer = FALSE,
                              !.op = "cooldown", !.score = 1000,
                              !.cooldown = getCooldownPatterns(patternHistory, beatCounter,
                                                               memConfig)]
    /\ UNCHANGED <<patternHistory, beatCounter>>
    /\ MemFrame

NextMemOps ==
    \/ \E beats \in MemOpsBeatInputs : MemRecord(beats, "verse", 500)
    \/ \E beats \in {BeatsA, BeatsShort} : MemQuery(beats)
    \/ MemDiversity
    \/ MemCooldown
    \/ MemReset

SpecMemOps == InitMemOps /\ [][NextMemOps]_vars

\* C29: in every state of PatternMemory no two records share a sequence key, every
\* record has frequency >= 1 and 0 <= lastUsed <= beatCounter; the beat counter
\* decreases only in reset; and wouldBeRepetitive, getDiversityScore and
\* getCooldownPatterns leave the records and the counter as they were
C29_MemoryInvariants ==
    /\ [](/\ \A i, j \in 1..Len(patternHistory) :
                 patternHistory[i].sequence = patternHistory[j].sequence => i = j
          /\ \A i \in 1..Len(patternHistory) :
                 /\ patternHistory[i].frequency >= 1
                 /\ patternHistory[i].lastUsed >= 0
                 /\ patternHistory[i].lastUsed <= beatCounter)
    /\ [][/\ beatCounter' < beatCounter => trace'.op = "reset"
          /\ trace'.op \in {"query", "diversity", "cooldown"} =>
                 /\ patternHistory' = patternHistory
                 /\ beatCounter' = beatCounter
                 /\ memConfig' = memConfig]_vars

\* a memory of five records, one of them used twice, whose cooldown set has just
\* been asked for and holds some of the keys
C29_Witness ==
    /\ Len(patternHistory) >= 5
    /\ \E i \in 1..Len(patternHistory) : patternHistory[i].frequency >= 2
    /\ trace.op = "cooldown"
    /\ trace.cooldown # {}
    /\ trace.cooldown # {patternHistory[i].sequence : i \in 1..Len(patternHistory)}

\* C23: in every bar the answer of wouldBeRepetitive is computed on the memory as it
\* is before the bar is recorded; when it flags the candidate beats, the variation is
\* applied exactly once (every lane shifted by one), the beats appended to the
\* beatmap and recorded into the memory are the varied ones, and their sequence key
\* differs from the flagged key
C23_FlaggedBarVaried ==
    [][BarStep =>
        LET b == trace'.bar
            section == getSectionForTime(bars[barIndex + 1].startTime, structure.sections)
            sectionEnergy == getSectionEnergy(bars[barIndex + 1].startTime, energy, duration)
        IN  /\ b.flagged = wouldBeRepetitive(patternHistory, beatCounter, memConfig,
                                              b.candidate)
            /\ <<patternHistory', beatCounter'>> =
                   recordPattern(patternHistory, beatCounter, memConfig, EmittedBeats,
                                 section, sectionEnergy)
            /\ b.flagged =>
                   /\ Len(EmittedBeats) = Len(b.candidate)
                   /\ \A i \in 1..Len(EmittedBeats) :
                          EmittedBeats[i] =
                              [b.candidate[i] EXCEPT !.lane = (@ + 1) % 4]
                   /\ createSequenceKey(EmittedBeats, memConfig)
                          # createSequenceKey(b.candidate, memConfig)
                   /\ FindPattern(patternHistory,
                                  createSequenceKey(b.candidate, memConfig)) # 0
            /\ ~b.flagged => EmittedBeats = b.candidate]_vars

\* a run has got past a bar whose candidate beats were flagged and varied
C23_Witness ==
    /\ phase = "analyzing"
    /\ barIndex > 0
    /\ trace.bar.flagged
    /\ Len(trace.bar.candidate) >= memConfig.ngramSize
    /\ Len(beatmap) >= Len(trace.bar.candidate)

\* a recordPattern call that inserted a record and pushed the count above maxHistorySize
PruningStep ==
    /\ beatCounter' > beatCounter
    /\ FindPattern(patternHistory, createSequenceKey(trace'.recorded, memConfig)) = 0
    /\ Len(patternHistory) + 1 > memConfig.maxHistorySize

\* C24: the number of records never exceeds maxHistorySize, and a recordPattern call
\* that pushes the count above maxHistorySize leaves exactly 80% of maxHistorySize
\* records
C24_HistoryBound ==
    /\ [](Len(patternHistory) <= memConfig.maxHistorySize)
    /\ [][PruningStep =>
              10 * Len(patternHistory') = 8 * memConfig.maxHistorySize]_vars

\* C25: when a recordPattern call triggers the pruning, the record it wrote survives,
\* and no record is discarded while a record with the same frequency and an older
\* lastUsed is retained
C25_PruneLeastRecent ==
    [][PruningStep =>
        /\ FindPattern(patternHistory',
                       createSequenceKey(trace'.recorded, memConfig)) # 0
        /\ \A i \in 1..Len(patternHistory) :
               FindPattern(patternHistory', patternHistory[i].sequence) = 0 =>
                   ~\E j \in 1..Len(patternHistory') :
                       /\ patternHistory'[j].frequency = patternHistory[i].frequency
                       /\ patternHistory'[j].lastUsed < patternHistory[i].lastUsed]_vars

\* floor(0.15 * m * n) with m = 0.6 easy, 1.0 medium, 1.4 hard
StatedBudget(n, level) ==
    (15 * (IF level = "easy" THEN 6 ELSE IF level = "hard" THEN 14 ELSE 10) * n) \div 1000

\* C27: a call of modifyBeatmapForStage7 on n beats pushes at most
\* floor(0.15 * m * n) beats, echo hits and sweep beats together, and returns at
\* most that many beats more than it was given; an echo hit is pushed only when no
\* beat of the input and no beat pushed before it is closer than 0.12 s to it
C27_AdditiveBudget ==
    trace.stage7.level # "none" =>
        LET added == trace.stage7.added
            budget == StatedBudget(Len(beatmap), trace.stage7.level)
        IN  /\ trace.stage7.addedNotes = Len(added)
            /\ Len(added) <= budget
            /\ Len(result) - Len(beatmap) <= budget
            /\ \A k \in 1..Len(added) :
                   added[k].templateName = "chorus-echo" =>
                       /\ \A i \in 1..Len(beatmap) :
                              Abs(beatmap[i].time - added[k].time) >= 120
                       /\ \A j \in 1..(k - 1) :
                              Abs(added[j].time - added[k].time) >= 120

\* a call that pushed an echo hit and the four sweep beats, as many as the guard of
\* the sweep allows
C27_Witness ==
    /\ trace.stage7.level # "none"
    /\ \E k \in 1..Len(trace.stage7.added) :
           trace.stage7.added[k].templateName = "chorus-echo"
    /\ \E k \in 1..Len(trace.stage7.added) :
           trace.stage7.added[k].templateName = "zigzag-sweep"
    /\ Len(trace.stage7.added) = StatedBudget(Len(beatmap), trace.stage7.level) - 1

\* C28: a call of modifyBeatmapForStage7 leaves its input as it was: the same beats
\* in the same order, with no field of a beat changed
C28_InputUntouched ==
    [][(trace.stage7.level = "none" /\ trace'.stage7.level # "none") =>
           beatmap' = beatmap]_vars

\* C30: in the list generateBeatmap returns, two beats next to each other in time
\* that are both taps are at least 0.1 s apart
C30_TapSpacing ==
    Returned =>
        \A i \in 1..(Len(result) - 1) :
            (~result[i].isHold /\ ~result[i + 1].isHold) =>
                result[i + 1].time - result[i].time >= 100

\* a returned list with two taps next to each other less than 0.12 s apart, and
\* with a hold less than 0.1 s from the beat next to it
C30_Witness ==
    /\ Returned
    /\ \E i \in 1..(Len(result) - 1) :
           /\ ~result[i].isHold /\ ~result[i + 1].isHold
           /\ result[i + 1].time - result[i].time < 120
    /\ \E i \in 1..(Len(result) - 1) :
           /\ result[i].isHold \/ result[i + 1].isHold
           /\ result[i + 1].time - result[i].time < 100

====
